---- MODULE Spec2Model ----
(***************************************************************************)
(* Verification model of sublime-TestManager (package texpl):              *)
(*   - the test tree and run coordinator   (texpl/test_data.py, run.py)    *)
(*   - the task execution engine           (texpl/process.py)              *)
(*   - the line-oriented output decoders   (texpl/test_frameworks/)        *)
(* Paths are sequences of segment names; the tree is a function from the   *)
(* paths of its nodes (the root is the empty path) to TestItem records.    *)
(***************************************************************************)
EXTENDS Integers, Sequences, FiniteSets, TLC

VARIABLES
    tests,               \* TestData.tests : the tree (path -> TestItem)
    running,             \* TestData.meta.running
    last_test_finished,  \* TestData.last_test_finished (NoPath = None)
    test_paths,          \* TestRunHelper.run_tests: the path list of the run
    current_test,        \* OutputParser.current_test of the decoder of the run
    last_op,             \* the coordinator call that returned (or raised) last
    last_task_id,        \* WorkQueue.last_task_id
    worker_queue,        \* WorkQueue.worker_queue : the (task_id, job) pairs waiting
    output_queue,        \* WorkQueue.output_queue : task_id -> its Queue(1) object
    queues,              \* the Queue(1) objects made so far, by identity, with their content
    frame,               \* per thread: its position in run / next_task_id / worker_run
    worker,              \* the worker thread's position in process_queue_one
    log,                 \* what happened so far: jobs made, ids issued, order of
                         \* submission and start, results handed over and received
    parser,              \* which OutputParser reads the stream ("none": no stream)
    current_status,      \* OutputParser.current_status
    emitted,             \* the notify_test_started / notify_test_finished calls made
    outputs,             \* the notify_test_output calls made
    stream,              \* the stream so far: lines written and fed, sub-results of
                         \* the test started last, errors logged, whether it has ended
    store,               \* the database file: the meta row and the rows of table tests
    test_output_buffer,  \* TestList.test_output_buffer : path -> the output not flushed yet
    test_ouputs,         \* table test_ouputs of the database : path -> output
    since_start,         \* per leaf, the notify_test_output texts since its last start
    run_id_lookup,       \* TestList.run_id_lookup of TestData.tests : run id -> path
    run,                 \* TestRunHelper.run_tests: its position in the loop over the
                         \* suites, the suites of the run and those it has run
    stop_tests_event,    \* the Event objects made so far (0: not set, n: set during
                         \* run n), which of them TestData.stop_tests_event is, and
                         \* the number of runs started
    streaming,           \* the job of get_output_streamed: where it is, its stop_token,
                         \* its subprocess, the pipe and the reader thread
    stop_command,        \* TestManagerStopCommand.run: idle or at its dialog
    async_inner,         \* Cmd.worker_run_async: per supervisor thread, its position
                         \* in async_inner, its job and the two callbacks it was given
    timeouts,            \* sublime.set_timeout: the callbacks scheduled and not yet
                         \* called, each with the thread that scheduled it
    called,              \* the callbacks the host has called, each with the thread
                         \* it was called on
    work_queues,         \* process.work_queues : name -> its WorkQueue object
    queue_list_lock,     \* process.queue_list_lock : the thread that holds it, or free
    work_queue_objs,     \* the WorkQueue objects made so far, by identity: name,
                         \* worker_queue, and where the object's worker thread is
    get_queue_frame,     \* per thread: its position in run() / get_queue
    named_jobs,          \* the jobs given to run(): the queue name, whether the job
                         \* returns, and how far it has got
    now,                 \* time.time(), in ticks
    refresh_list_queue,  \* TestData.refresh_list_queue : the hint lists not yet taken
    refresh_thread,      \* TestData.refresh_thread in refresh_views_continuously: its
                         \* position, accumulated_hints, last_refresh, its stop token,
                         \* and whether notify_run_finished is joining it
    delivered,           \* the refresh_views_now calls made: by whom, the hints, when
    writes,              \* the TestList.save calls made: by which notification, the
                         \* hints, when, and the run it was made in
    last_discovered,     \* the DiscoveredTest list of the last notify_discovered_tests
    async_queue,         \* sublime.set_timeout_async: the callbacks not yet started
    async_thread,        \* the callback the host's async thread is running
    commands,            \* the discover and start commands given, and the
                         \* discoveries delivered
    conversion,          \* a path or a name, and what test_path_to_name and
                         \* test_name_to_path make of it
    xml                  \* an XmlStreamHandler: its element stack, its content, and
                         \* the calls it has made

dataVars == <<tests, running, last_test_finished, test_paths, current_test, last_op>>

queueVars == <<last_task_id, worker_queue, output_queue, queues, frame, worker, log>>

parserVars == <<parser, current_status, emitted, outputs, stream>>

storeVars == <<store>>

outputVars == <<test_output_buffer, test_ouputs, since_start>>

lookupVars == <<run_id_lookup>>

\* What neither the coordinator nor its database touches.
runVars == <<run>>

jobVars == <<stop_tests_event, streaming, stop_command>>

asyncVars == <<async_inner, timeouts, called>>

namedVars == <<work_queues, queue_list_lock, work_queue_objs, get_queue_frame, named_jobs>>

refreshVars == <<now, refresh_list_queue, refresh_thread, delivered, writes>>

commandVars == <<last_discovered, async_queue, async_thread, commands>>

textVars == <<conversion, xml>>

restVars ==
    <<outputVars, runVars, jobVars, asyncVars, namedVars, refreshVars, commandVars, textVars>>

otherVars == <<lookupVars, restVars>>

\* What the actions of one part of the model leave alone.
notData == <<queueVars, parserVars, storeVars, otherVars>>

notQueue == <<dataVars, parserVars, storeVars, otherVars>>

notParser == <<queueVars, storeVars, otherVars>>

notStore == <<queueVars, parserVars, otherVars>>

\* What a step that renews TestData.tests leaves alone.
notList == <<queueVars, parserVars, storeVars, restVars>>

vars == <<dataVars, queueVars, parserVars, storeVars, otherVars>>

----------------------------------------------------------------------------
(* Bounds and input sets                                                   *)

MaxDiscovered == 2       \* longest list handed to notify_discovered_tests
MaxTime == 1             \* start times are drawn from 1..MaxTime

\* Full paths a discovery can report.  "a" is a prefix of "a/x": a test may be
\* named like the group of another test.
PathUniverse == { <<"a">>, <<"a", "x">>, <<"b">> }

\* Statuses a decoder passes to notify_test_finished.
FinishStatuses == {"passed", "failed"}

NoPath == <<>>           \* None, where a path is optional
NoTime == 0              \* None, where a datetime is optional

----------------------------------------------------------------------------
(* TestStatus, RunStatus and their merge                                   *)

TestStatus == {"passed", "failed", "crashed", "stopped", "skipped", "not_run"}

RunStatus == {"not_running", "running", "queued"}

STATUS_PRIORITY(s) ==
    CASE s = "not_run" -> 0
      [] s = "stopped" -> 1
      [] s = "skipped" -> 2
      [] s = "passed"  -> 3
      [] s = "failed"  -> 4
      [] s = "crashed" -> 5

RUN_STATUS_PRIORITY(s) ==
    CASE s = "not_running" -> 0
      [] s = "queued"      -> 1
      [] s = "running"     -> 2

status_merge(status1, status2) ==
    IF STATUS_PRIORITY(status1) > STATUS_PRIORITY(status2) THEN status1 ELSE status2

run_status_merge(status1, status2) ==
    IF RUN_STATUS_PRIORITY(status1) > RUN_STATUS_PRIORITY(status2) THEN status1 ELSE status2

----------------------------------------------------------------------------
(* TestItem and TestList                                                   *)

Prefix(path, i) == SubSeq(path, 1, i)

IsPrefix(p, q) == Len(p) <= Len(q) /\ Prefix(q, Len(p)) = p

\* TestItem.__init__ with its defaults; leaf = (children is None).
TestItem(leaf, discovery_id) ==
    [leaf |-> leaf, last_status |-> "not_run", run_status |-> "not_running",
     last_run |-> NoTime, discovery_id |-> discovery_id]

\* TestList.__init__: a root with an empty children map.
TestList == (<<>> :> TestItem(FALSE, 0))

Children(t, n) == {p \in DOMAIN t : Len(p) = Len(n) + 1 /\ Prefix(p, Len(n)) = n}

Leaves(t) == {p \in DOMAIN t : t[p].leaf}

RECURSIVE merge_last_status(_, _, _)
merge_last_status(t, S, acc) ==
    IF S = {} THEN acc
    ELSE LET child == CHOOSE c \in S : TRUE
         IN merge_last_status(t, S \ {child}, status_merge(acc, t[child].last_status))

RECURSIVE merge_run_status(_, _, _)
merge_run_status(t, S, acc) ==
    IF S = {} THEN acc
    ELSE LET child == CHOOSE c \in S : TRUE
         IN merge_run_status(t, S \ {child}, run_status_merge(acc, t[child].run_status))

recompute_status(t, n) ==
    IF t[n].leaf THEN t
    ELSE [t EXCEPT ![n].last_status = merge_last_status(t, Children(t, n), "not_run"),
                   ![n].run_status = merge_run_status(t, Children(t, n), "not_running")]

\* TestList.find_test: TRUE when the walk from the root reaches item_path.
RECURSIVE find_test_from(_, _, _)
find_test_from(t, item_path, i) ==
    IF i > Len(item_path) THEN TRUE
    ELSE IF t[Prefix(item_path, i - 1)].leaf THEN FALSE
    ELSE IF Prefix(item_path, i) \notin DOMAIN t THEN FALSE
    ELSE find_test_from(t, item_path, i + 1)

find_test(t, item_path) == find_test_from(t, item_path, 1)

\* The second loop of update_parent_status without parents.reverse(): the
\* parents are recomputed from the root down.
RECURSIVE recompute_parents_rootfirst(_, _, _)
recompute_parents_rootfirst(t, item_path, i) ==
    IF i > Len(item_path) - 1 THEN t
    ELSE recompute_parents_rootfirst(recompute_status(t, Prefix(item_path, i)), item_path, i + 1)

\* The second loop of update_parent_status: parents.reverse(), then recompute.
RECURSIVE recompute_parents(_, _, _)
recompute_parents(t, item_path, i) ==
    IF i < 0 THEN t
    ELSE recompute_parents(recompute_status(t, Prefix(item_path, i)), item_path, i - 1)

\* update_parent_status recomputing the immediate parent only.
update_parent_status_parentonly(t, item_path) ==
    IF ~find_test(t, item_path) \/ item_path = <<>> THEN t
    ELSE recompute_status(t, Prefix(item_path, Len(item_path) - 1))

update_parent_status(t, item_path) ==
    IF ~find_test(t, item_path) THEN t
    ELSE recompute_parents(t, item_path, Len(item_path) - 1)

\* The item found at path together with the items below it.
SubTree(t, path) == [q \in {q \in DOMAIN t : IsPrefix(path, q)} |-> t[q]]

\* TestList.update_test: item is the fragment (item_path and what hangs below
\* it); err is the failed assertion 'parent.children is not None'.
RECURSIVE update_test_from(_, _, _, _)
update_test_from(st, item_path, item, i) ==
    IF i > Len(item_path) THEN st
    ELSE LET parent == Prefix(item_path, i - 1)
             cur    == Prefix(item_path, i)
         IN IF st.t[parent].leaf THEN [st EXCEPT !.err = TRUE]
            ELSE IF cur \in DOMAIN st.t THEN update_test_from(st, item_path, item, i + 1)
            ELSE IF i = Len(item_path)
                 THEN [st EXCEPT !.t = item @@ st.t, !.inserted = TRUE]
            ELSE update_test_from(
                     [st EXCEPT !.t = (cur :> TestItem(FALSE, item[item_path].discovery_id)) @@ st.t],
                     item_path, item, i + 1)

update_test(t, item_path, item) ==
    update_test_from([t |-> t, err |-> FALSE, inserted |-> FALSE], item_path, item, 1)

----------------------------------------------------------------------------
(* TestItem status updates                                                 *)

update_from_discovered(t, path, discovery_id) ==
    [t EXCEPT ![path].discovery_id = discovery_id]

notify_run_queued(t, path) == [t EXCEPT ![path].run_status = "queued"]

\* notify_run_stopped without the CRASHED / STOPPED verdicts.
notify_run_stopped_keep(t, path) ==
    [t EXCEPT ![path].run_status = "not_running"]

notify_run_stopped(t, path) ==
    [t EXCEPT ![path].last_status =
                  IF t[path].run_status = "running" THEN "crashed"
                  ELSE IF t[path].run_status = "queued" THEN "stopped"
                  ELSE @,
              ![path].run_status = "not_running"]

update_from_started(t, path, start_time) ==
    [t EXCEPT ![path].last_run = start_time, ![path].run_status = "running"]

update_from_finished(t, path, status) ==
    [t EXCEPT ![path].last_status = status, ![path].run_status = "not_running"]

----------------------------------------------------------------------------
(* TestData.notify_discovered_tests                                        *)

\* Lists of at most n elements of S.
ListsOf(S, n) == UNION {[1..k -> S] : k \in 0..n}

\* The lists a discovery hands over; discover_tests numbers them 0, 1, ...
DiscoveredLists == ListsOf(PathUniverse, MaxDiscovered)

Under(G, q) == \E r \in G : IsPrefix(r, q)

\* An item of old_tests put into new_tests is the same object in both trees:
\* what the loop does to it and below it (G: the paths of such items) shows in
\* old_tests too.
Alias(old, new, G) ==
    [q \in {q \in DOMAIN old : ~Under(G, q)} \cup {q \in DOMAIN new : Under(G, q)} |->
        IF Under(G, q) THEN new[q] ELSE old[q]]

\* One iteration of the loop over discovered_tests.
discover_one(d, full_name, discovery_id) ==
    LET found == find_test(d.old, full_name)
        old1  == IF found THEN update_from_discovered(d.old, full_name, discovery_id)
                 ELSE d.old
        new1  == IF found /\ Under(d.G, full_name) /\ full_name \in DOMAIN d.new
                 THEN update_from_discovered(d.new, full_name, discovery_id)
                 ELSE d.new
        item  == IF found THEN SubTree(old1, full_name)
                 ELSE (full_name :> TestItem(TRUE, 0))
        r     == update_test(new1, full_name, item)
        G1    == IF found /\ r.inserted THEN d.G \cup {full_name} ELSE d.G
        new2  == IF r.err THEN r.t ELSE update_parent_status(r.t, full_name)
    IN [new |-> new2, old |-> Alias(old1, new2, G1), G |-> G1, err |-> r.err]

RECURSIVE discover_from(_, _, _)
discover_from(d, discovered_tests, k) ==
    IF k > Len(discovered_tests) \/ d.err THEN d
    ELSE discover_from(discover_one(d, discovered_tests[k], k - 1), discovered_tests, k + 1)

discover_all(old_tests, discovered_tests) ==
    discover_from([new |-> TestList, old |-> old_tests, G |-> {}, err |-> FALSE],
                  discovered_tests, 1)

\* f with f[k] = v, k added to its domain if need be
Put(f, k, v) == [x \in DOMAIN f \cup {k} |-> IF x = k THEN v ELSE f[x]]

\* DiscoveredTest.run_id of the test discovered at a path: the id its
\* framework runs and reports it by.
RunId(path) ==
    CASE path = <<"a">> -> "id_a"
      [] path = <<"a", "x">> -> "id_a_x"
      [] path = <<"b">> -> "id_b"
      [] OTHER -> "id_other"

add_item_to_run_id_lookup(lookup, path) == Put(lookup, RunId(path), path)

\* update_test: 'if item.children is None: self.add_item_to_run_id_lookup(item)'
\* for the item it has just put into the tree at path.
add_to_lookup(lookup, t, path, inserted) ==
    IF inserted /\ t[path].leaf THEN add_item_to_run_id_lookup(lookup, path) ELSE lookup

find_test_by_run_id(lookup, run_id) ==
    IF run_id \in DOMAIN lookup THEN lookup[run_id] ELSE NoPath

\* new_tests.run_id_lookup after the loop over discovered_tests.
RECURSIVE lookup_from(_, _, _, _)
lookup_from(d, lookup, discovered_tests, k) ==
    IF k > Len(discovered_tests) \/ d.err THEN lookup
    ELSE LET full_name == discovered_tests[k]
             d1 == discover_one(d, full_name, k - 1)
             inserted == ~d1.err /\ full_name \notin DOMAIN d.new
         IN lookup_from(d1, IF d1.err THEN lookup
                            ELSE add_to_lookup(lookup, d1.new, full_name, inserted),
                        discovered_tests, k + 1)

discovered_lookup(old_tests, discovered_tests) ==
    lookup_from([new |-> TestList, old |-> old_tests, G |-> {}, err |-> FALSE], <<>>,
                discovered_tests, 1)

\* discover.py refuses to discover while a run is in progress.
notify_discovered_tests(discovered_tests) ==
    /\ ~running
    /\ LET d == discover_all(tests, discovered_tests)
       IN /\ ~d.err
          /\ tests' = d.new
    /\ last_op' = "discovered"
    /\ UNCHANGED <<running, last_test_finished, test_paths, current_test>>

\* update_test fails its assertion: the exception leaves self.tests in place,
\* with what the loop had already done to the items it shares with new_tests.
notify_discovered_tests_raises(discovered_tests) ==
    /\ ~running
    /\ LET d == discover_all(tests, discovered_tests)
       IN /\ d.err
          /\ tests' = d.old
    /\ last_op' = "discovered_raised"
    /\ UNCHANGED <<running, last_test_finished, test_paths, current_test>>

----------------------------------------------------------------------------
(* TestData.notify_run_started / notify_run_finished / notify_test_*       *)

IsInjective(f) == \A i, j \in DOMAIN f : f[i] = f[j] => i = j

\* run_tests collects the leaves below the selected nodes.
RunLists(t) == {l \in ListsOf(Leaves(t), Cardinality(Leaves(t))) : IsInjective(l)}

RECURSIVE run_queue_from(_, _, _)
run_queue_from(t, paths, k) ==
    IF k > Len(paths) THEN t
    ELSE run_queue_from(update_parent_status(notify_run_queued(t, paths[k]), paths[k]),
                        paths, k + 1)

RECURSIVE run_stop_from(_, _, _)
run_stop_from(t, paths, k) ==
    IF k > Len(paths) THEN t
    ELSE run_stop_from(update_parent_status(notify_run_stopped(t, paths[k]), paths[k]),
                       paths, k + 1)

\* run_tests up to and including data.notify_run_started(StartedRun(test_paths))
notify_run_started(paths) ==
    /\ ~running
    /\ \A k \in DOMAIN paths : find_test(tests, paths[k])
    /\ running' = TRUE
    /\ tests' = run_queue_from(tests, paths, 1)
    /\ test_paths' = paths
    /\ last_op' = "run_started"
    /\ UNCHANGED <<last_test_finished, current_test>>

\* the finally clause of run_tests: data.notify_run_finished(FinishedRun(test_paths));
\* the decoders of the run are gone by then.
notify_run_finished(paths) ==
    /\ running
    /\ paths = test_paths
    /\ \A k \in DOMAIN paths : find_test(tests, paths[k])
    /\ running' = FALSE
    /\ tests' = run_stop_from(tests, paths, 1)
    /\ test_paths' = <<>>
    /\ current_test' = NoPath
    /\ last_op' = "run_finished"
    /\ UNCHANGED last_test_finished

started_tree(t, full_name, start_time, last_finished) ==
    LET t1 == update_from_started(t, full_name, start_time)
        t2 == IF last_finished # NoPath THEN update_parent_status(t1, last_finished) ELSE t1
    IN update_parent_status(t2, full_name)

\* A decoder resolves a start record to a leaf, makes it its current test and
\* calls notify_test_started.  run_tests runs a suite, and with it a decoder,
\* only when it has collected tests.
notify_test_started(full_name, start_time) ==
    /\ running
    /\ test_paths # <<>>
    /\ find_test(tests, full_name)
    /\ tests' = started_tree(tests, full_name, start_time, last_test_finished)
    /\ last_test_finished' = NoPath
    /\ current_test' = full_name
    /\ last_op' = "test_started"
    /\ UNCHANGED <<running, test_paths>>

\* A decoder calls notify_test_finished for its current test only, and then
\* has no current test.
notify_test_finished(full_name, status) ==
    /\ running
    /\ current_test = full_name
    /\ find_test(tests, full_name)
    /\ tests' = update_from_finished(tests, full_name, status)
    /\ last_test_finished' = full_name
    /\ current_test' = NoPath
    /\ last_op' = "test_finished"
    /\ UNCHANGED <<running, test_paths>>

----------------------------------------------------------------------------
(* WorkQueue (process.py): one named queue, its worker thread, its callers *)

MaxJobs == 3             \* jobs the callers hand to run() altogether

MaxNested == 1           \* of the jobs the worker runs, those that call run() themselves

WorkerQueueSize == 10    \* queue.Queue(10)

OutputQueueSize == 1     \* queue.Queue(1)

Callers == {"c1", "c2"}  \* threads that call run() on the queue

WorkerThread == "worker" \* WorkQueue.worker_thread

Threads == Callers \cup {WorkerThread}

\* What a job does is known when it is called: it returns a value, raises, or
\* calls run() on its own queue (and returns what that call returns).
JobKinds == {"ok", "raise", "nested"}

InnerKinds == {"ok", "raise"}

NoJob == 0

\* What a job hands back: its value (the job's identity stands for it) or an
\* exception object.
Value(job_id) == [error |-> FALSE, of |-> job_id]

JobError(job_id) == [error |-> TRUE, of |-> job_id]

NoOutputs == [error |-> FALSE, of |-> 0]

IdleFrame ==
    [pc |-> "idle", tmp |-> 0, task_id |-> 0, job |-> NoJob, obj |-> 0,
     outputs |-> NoOutputs, raised |-> FALSE]

IdleWorker ==
    [pc |-> "get", task_id |-> 0, job |-> NoJob, obj |-> 0, outputs |-> NoOutputs]

InitQueueVars ==
    /\ last_task_id = 0
    /\ worker_queue = <<>>
    /\ output_queue = <<>>
    /\ queues = <<>>
    /\ frame = [t \in Threads |-> IdleFrame]
    /\ worker = IdleWorker
    /\ log = [jobs |-> 0, nested |-> 0, issued |-> <<>>, submitted |-> <<>>,
              started |-> <<>>, raised |-> {}, handed |-> {}, received |-> <<>>]

\* No decoder, no stream.
NoStatus == "none"

NoLine == [type |-> "none", name |-> ""]

NoStream ==
    [lines |-> 0, subs |-> {}, last |-> "none", before |-> 0, ended |-> FALSE,
     fed |-> 0, line |-> NoLine, open |-> <<>>, unresolved |-> FALSE, errors |-> 0,
     reader |-> "reading"]

InitParserVars ==
    /\ parser = "none"
    /\ current_status = NoStatus
    /\ emitted = <<>>
    /\ outputs = <<>>
    /\ stream = NoStream

\* TestData.init(): the database of a new location, a meta row and no test
\* rows; read: what the constructor found there when it ran last.
NewStore ==
    [meta |-> [running |-> FALSE], rows |-> <<>>,
     read |-> [running |-> FALSE, rows |-> <<>>]]

InitStoreVars == store = NewStore

\* TestList.__init__: an empty buffer; init(): an empty table.
InitOutputVars ==
    /\ test_output_buffer = <<>>
    /\ test_ouputs = <<>>
    /\ since_start = <<>>

\* No run_tests call is under way.
NoRun == [pc |-> "idle", suites |-> <<>>, ran |-> <<>>, raised |-> FALSE]

\* TestData.__init__: self.stop_tests_event = threading.Event()
FirstEvent == [objs |-> <<0>>, cur |-> 1, runs |-> 0]

NoStreaming ==
    [pc |-> "none", token |-> 0, run |-> 0, proc |-> "none", unread |-> 0, reader |-> "none"]

InitJobVars ==
    /\ stop_tests_event = FirstEvent
    /\ streaming = NoStreaming
    /\ stop_command = "idle"

Supervisors == {"s1", "s2"}  \* the threads worker_run_async returns, once started

\* No worker_run_async thread is running.
NoAsync ==
    [pc |-> "none", job |-> NoJob, task_id |-> 0, num_tries |-> 0, obj |-> 0,
     outputs |-> NoOutputs, on_complete |-> FALSE, on_exception |-> FALSE]

InitAsyncVars ==
    /\ async_inner = [s \in Supervisors |-> NoAsync]
    /\ timeouts = <<>>
    /\ called = <<>>

\* process.py at import: no queue; no thread is in get_queue.
NoGetQueue == [pc |-> "idle", name |-> "", found |-> FALSE, obj |-> 0, job |-> 0]

InitNamedVars ==
    /\ work_queues = <<>>
    /\ queue_list_lock = "free"
    /\ work_queue_objs = <<>>
    /\ get_queue_frame = [t \in Callers |-> NoGetQueue]
    /\ named_jobs = <<>>

NoRefresh == 0 - 1       \* last_refresh = None

\* TestData.__init__: self.refresh_thread = None, an empty refresh_list_queue
NoRefreshThread ==
    [pc |-> "none", accumulated_hints |-> {}, last_refresh |-> NoRefresh, stop |-> FALSE,
     joining |-> FALSE, run |-> 0]

InitRefreshVars ==
    /\ now = 0
    /\ refresh_list_queue = <<>>
    /\ refresh_thread = NoRefreshThread
    /\ delivered = <<>>
    /\ writes = <<>>

\* The async thread between two callbacks.
NoCallback == [pc |-> "idle", kind |-> "none", test_list |-> <<>>]

InitCommandVars ==
    /\ last_discovered = <<>>
    /\ async_queue = <<>>
    /\ async_thread = NoCallback
    /\ commands = [discover |-> 0, start |-> 0, delivered |-> 0, discovering |-> FALSE]

\* Nothing has been converted.
NoConversion == [pc |-> "none", path |-> <<>>, name |-> <<>>]

\* No document is being parsed.
NoXml == [pc |-> "none"]

InitTextVars ==
    /\ conversion = NoConversion
    /\ xml = NoXml

InitProgramVars ==
    /\ InitOutputVars
    /\ run_id_lookup = <<>>
    /\ run = NoRun
    /\ InitJobVars
    /\ InitAsyncVars
    /\ InitNamedVars
    /\ InitRefreshVars
    /\ InitCommandVars

InitOtherVars == InitProgramVars /\ InitTextVars

InitNotData == InitQueueVars /\ InitParserVars /\ InitStoreVars /\ InitOtherVars

InitNotQueue == InitParserVars /\ InitStoreVars /\ InitOtherVars

InitNotParser == InitQueueVars /\ InitStoreVars /\ InitOtherVars

\* threading.get_ident() == queue.worker_thread.ident, never true.
is_worker_thread_never(t) == FALSE

\* threading.get_ident() == queue.worker_thread.ident
is_worker_thread(t) == t = WorkerThread

\* run(): a caller thread makes a job and asks for its task id.
Call(t) ==
    /\ t \in Callers
    /\ frame[t].pc = "idle"
    /\ log.jobs < MaxJobs
    /\ frame' = [frame EXCEPT ![t] = [IdleFrame EXCEPT !.pc = "load", !.job = log.jobs + 1]]
    /\ log' = [log EXCEPT !.jobs = @ + 1]
    /\ UNCHANGED <<notQueue, last_task_id, worker_queue, output_queue, queues, worker>>

\* next_task_id, 'self.last_task_id += 1': the attribute is read ...
NextTaskIdLoad(t) ==
    /\ frame[t].pc = "load"
    /\ frame' = [frame EXCEPT ![t].tmp = last_task_id, ![t].pc = "store"]
    /\ UNCHANGED <<notQueue, last_task_id, worker_queue, output_queue, queues, worker, log>>

\* ... and, in a later bytecode, written.
NextTaskIdStore(t) ==
    /\ frame[t].pc = "store"
    /\ last_task_id' = frame[t].tmp + 1
    /\ frame' = [frame EXCEPT ![t].pc = "read"]
    /\ UNCHANGED <<notQueue, worker_queue, output_queue, queues, worker, log>>

\* next_task_id, 'task_id = self.last_task_id; return task_id'
NextTaskIdRead(t) ==
    /\ frame[t].pc = "read"
    /\ frame' = [frame EXCEPT ![t].task_id = last_task_id, ![t].pc = "worker_run"]
    /\ log' = [log EXCEPT !.issued = Append(@, last_task_id)]
    /\ UNCHANGED <<notQueue, last_task_id, worker_queue, output_queue, queues, worker>>

\* worker_run: in the worker thread the job is called immediately, ...
WorkerRunInline(t) ==
    /\ frame[t].pc = "worker_run"
    /\ is_worker_thread(t)
    /\ \E kind \in InnerKinds :
           /\ frame' = [frame EXCEPT
                           ![t].outputs = IF kind = "raise" THEN JobError(frame[t].job)
                                          ELSE Value(frame[t].job),
                           ![t].raised = (kind = "raise"),
                           ![t].pc = "done"]
           /\ log' = [log EXCEPT !.raised = IF kind = "raise" THEN @ \cup {frame[t].job} ELSE @]
    /\ UNCHANGED <<notQueue, last_task_id, worker_queue, output_queue, queues, worker>>

\* ... in another thread it is put on worker_queue (push_new_job blocks while
\* the queue is full).
PushNewJob(t) ==
    /\ frame[t].pc = "worker_run"
    /\ ~is_worker_thread(t)
    /\ Len(worker_queue) < WorkerQueueSize
    /\ worker_queue' = Append(worker_queue, [task_id |-> frame[t].task_id, job |-> frame[t].job])
    /\ frame' = [frame EXCEPT ![t].pc = "get_output_queue"]
    /\ log' = [log EXCEPT !.submitted = Append(@, frame[t].job)]
    /\ UNCHANGED <<notQueue, last_task_id, output_queue, queues, worker>>

\* get_output_queue: the Queue(1) of task_id, made when there is none.
HasOutputQueue(task_id) == task_id \in DOMAIN output_queue

OutputQueueOf(task_id) ==
    IF HasOutputQueue(task_id) THEN output_queue[task_id] ELSE Len(queues) + 1

get_output_queue(task_id) ==
    IF HasOutputQueue(task_id)
    THEN UNCHANGED <<output_queue, queues>>
    ELSE /\ queues' = Append(queues, <<>>)
         /\ output_queue' = (task_id :> (Len(queues) + 1)) @@ output_queue

\* get_job_output: queue = self.get_output_queue(task_id)
GetOutputQueue(t) ==
    /\ frame[t].pc = "get_output_queue"
    /\ get_output_queue(frame[t].task_id)
    /\ frame' = [frame EXCEPT ![t].obj = OutputQueueOf(frame[t].task_id), ![t].pc = "get"]
    /\ UNCHANGED <<notQueue, last_task_id, worker_queue, worker, log>>

\* get_job_output: queue.get(timeout=None) waits for an item.
GetJobOutput(t) ==
    /\ frame[t].pc = "get"
    /\ queues[frame[t].obj] # <<>>
    /\ frame' = [frame EXCEPT ![t].outputs = Head(queues[frame[t].obj]), ![t].pc = "release"]
    /\ queues' = [queues EXCEPT ![frame[t].obj] = Tail(@)]
    /\ UNCHANGED <<notQueue, last_task_id, worker_queue, output_queue, worker, log>>

\* get_job_output, finally: release_output_queue(task_id); worker_run then
\* raises an exception object and returns anything else.
ReleaseOutputQueue(t) ==
    /\ frame[t].pc = "release"
    /\ output_queue' = [k \in DOMAIN output_queue \ {frame[t].task_id} |-> output_queue[k]]
    /\ frame' = [frame EXCEPT ![t].raised = frame[t].outputs.error, ![t].pc = "done"]
    /\ UNCHANGED <<notQueue, last_task_id, worker_queue, queues, worker, log>>

\* run() returns to (or raises in) the caller.
Return(t) ==
    /\ t \in Callers
    /\ frame[t].pc = "done"
    /\ log' = [log EXCEPT !.received =
                   (frame[t].job :> [outputs |-> frame[t].outputs, raised |-> frame[t].raised])
                   @@ @]
    /\ frame' = [frame EXCEPT ![t] = IdleFrame]
    /\ UNCHANGED <<notQueue, last_task_id, worker_queue, output_queue, queues, worker>>

\* process_queue_one: worker_queue.get(timeout=1) takes the oldest pair; when
\* there is none it raises, and process_queue calls it again.
WorkerGet ==
    /\ worker.pc = "get"
    /\ worker_queue # <<>>
    /\ worker' = [worker EXCEPT !.pc = "job", !.task_id = Head(worker_queue).task_id,
                                !.job = Head(worker_queue).job]
    /\ worker_queue' = Tail(worker_queue)
    /\ log' = [log EXCEPT !.started = Append(@, Head(worker_queue).job)]
    /\ UNCHANGED <<notQueue, last_task_id, output_queue, queues, frame>>

\* process_queue_one: outputs = job(), an exception becoming a JobError.
WorkerJob ==
    /\ worker.pc = "job"
    /\ \E kind \in JobKinds \ {"nested"} :
           /\ worker' = [worker EXCEPT
                            !.outputs = IF kind = "raise" THEN JobError(worker.job)
                                        ELSE Value(worker.job),
                            !.pc = "get_output_queue"]
           /\ log' = [log EXCEPT !.raised = IF kind = "raise" THEN @ \cup {worker.job} ELSE @]
    /\ UNCHANGED <<notQueue, last_task_id, worker_queue, output_queue, queues, frame>>

\* The job calls run() on its own queue, from the worker thread.
WorkerJobCalls ==
    /\ worker.pc = "job"
    /\ "nested" \in JobKinds
    /\ log.nested < MaxNested
    /\ frame' = [frame EXCEPT ![WorkerThread] =
                     [IdleFrame EXCEPT !.pc = "load", !.job = MaxJobs + log.nested + 1]]
    /\ log' = [log EXCEPT !.nested = @ + 1]
    /\ worker' = [worker EXCEPT !.pc = "nested"]
    /\ UNCHANGED <<notQueue, last_task_id, worker_queue, output_queue, queues>>

\* run() returns to the job, which returns what it got; or raises in it, and
\* process_queue_one makes a JobError of the exception.
WorkerJobReturns ==
    /\ worker.pc = "nested"
    /\ frame[WorkerThread].pc = "done"
    /\ worker' = [worker EXCEPT
                     !.outputs = IF frame[WorkerThread].raised THEN JobError(worker.job)
                                 ELSE frame[WorkerThread].outputs,
                     !.pc = "get_output_queue"]
    /\ frame' = [frame EXCEPT ![WorkerThread] = IdleFrame]
    /\ log' = [log EXCEPT !.raised = IF frame[WorkerThread].raised THEN @ \cup {worker.job}
                                     ELSE @]
    /\ UNCHANGED <<notQueue, last_task_id, worker_queue, output_queue, queues>>

\* process_queue_one: self.get_output_queue(task_id)
WorkerGetOutputQueue ==
    /\ worker.pc = "get_output_queue"
    /\ get_output_queue(worker.task_id)
    /\ worker' = [worker EXCEPT !.obj = OutputQueueOf(worker.task_id), !.pc = "put"]
    /\ UNCHANGED <<notQueue, last_task_id, worker_queue, frame, log>>

\* process_queue_one: .put(outputs, timeout=1) on a queue with room
WorkerPut ==
    /\ worker.pc = "put"
    /\ Len(queues[worker.obj]) < OutputQueueSize
    /\ queues' = [queues EXCEPT ![worker.obj] = Append(@, worker.outputs)]
    /\ worker' = IdleWorker
    /\ log' = [log EXCEPT !.handed = @ \cup {worker.job}]
    /\ UNCHANGED <<notQueue, last_task_id, worker_queue, output_queue, frame>>

\* process_queue_one: .put(outputs, timeout=1) on a full queue raises after a
\* second; process_queue swallows the exception and the outputs are gone.
WorkerPutTimeout ==
    /\ worker.pc = "put"
    /\ Len(queues[worker.obj]) >= OutputQueueSize
    /\ worker' = IdleWorker
    /\ UNCHANGED <<notQueue, last_task_id, worker_queue, output_queue, queues, frame, log>>

NextQueue ==
    \/ \E t \in Threads : Call(t)
    \/ \E t \in Threads : NextTaskIdLoad(t)
    \/ \E t \in Threads : NextTaskIdStore(t)
    \/ \E t \in Threads : NextTaskIdRead(t)
    \/ \E t \in Threads : WorkerRunInline(t)
    \/ \E t \in Threads : PushNewJob(t)
    \/ \E t \in Threads : GetOutputQueue(t)
    \/ \E t \in Threads : GetJobOutput(t)
    \/ \E t \in Threads : ReleaseOutputQueue(t)
    \/ \E t \in Threads : Return(t)
    \/ WorkerGet
    \/ WorkerJob
    \/ WorkerJobCalls
    \/ WorkerJobReturns
    \/ WorkerGetOutputQueue
    \/ WorkerPut
    \/ WorkerPutTimeout

InitQueue ==
    /\ tests = TestList
    /\ running = FALSE
    /\ last_test_finished = NoPath
    /\ test_paths = <<>>
    /\ current_test = NoPath
    /\ last_op = "init"
    /\ InitNotData

SpecQueue == InitQueue /\ [][NextQueue]_vars

----------------------------------------------------------------------------
(* Claims about the task execution engine *)

\* C4: the task ids handed out by one queue are pairwise distinct and strictly
\* increasing in the order in which next_task_id returns them, whatever the
\* interleaving of the threads that ask for them.
C4_UniqueIncreasingIds ==
    \A i, j \in DOMAIN log.issued : i < j => log.issued[i] < log.issued[j]

\* C5: the worker starts the jobs in the order of their submission, and when a
\* job has started, every job submitted before it has handed over its result
\* (the worker's put into the result channel has succeeded).
C5_FifoOneAtATime ==
    \A k \in DOMAIN log.started :
        /\ k <= Len(log.submitted)
        /\ log.started[k] = log.submitted[k]
        /\ \A i \in 1..(k - 1) : log.submitted[i] \in log.handed

\* The position of the worker thread inside a run() it makes from a job.
InlineCall == frame[WorkerThread]

InlineStep ==
    \/ NextTaskIdLoad(WorkerThread)
    \/ NextTaskIdStore(WorkerThread)
    \/ NextTaskIdRead(WorkerThread)
    \/ WorkerRunInline(WorkerThread)
    \/ WorkerJobReturns

\* C6: a run() made from the worker thread on its own queue executes the job
\* on that thread: the job is never put on worker_queue, the call never waits
\* (its next step can always be taken, and it is never at a blocking get or
\* put), and what it returns or raises is the job's own result.
C6_InlineOnWorker ==
    InlineCall.pc # "idle" =>
        /\ InlineCall.pc \in {"load", "store", "read", "worker_run", "done"}
        /\ \A k \in DOMAIN worker_queue : worker_queue[k].job # InlineCall.job
        /\ \A k \in DOMAIN log.submitted : log.submitted[k] # InlineCall.job
        /\ ENABLED InlineStep
        /\ InlineCall.pc = "done" =>
               /\ InlineCall.outputs.of = InlineCall.job
               /\ InlineCall.raised = (InlineCall.job \in log.raised)
               /\ InlineCall.outputs.error = InlineCall.raised

\* An in-line job has returned its value to the job that called run(), while
\* another job is waiting on worker_queue.
C6_Witness ==
    /\ worker.pc = "put"
    /\ worker.outputs = Value(MaxJobs + 1)
    /\ worker_queue # <<>>

\* C7: an exception raised by a job on the worker becomes a JobError that is
\* raised in the caller waiting for that job, and in no other caller; the
\* worker goes on to the next job.
C7_JobErrorDelivered ==
    /\ worker.pc \in {"get_output_queue", "put"} /\ worker.job \in log.raised
           => worker.outputs = JobError(worker.job)
    /\ \A j \in DOMAIN log.received :
           /\ j \in log.raised =>
                  log.received[j] = [outputs |-> JobError(j), raised |-> TRUE]
           /\ log.received[j].raised => j \in log.raised

----------------------------------------------------------------------------
(* The line-oriented decoders: teamcity.py, pytest.py, cargo.py, gtest.py  *)

MaxLines == 4            \* lines of the stream before it ends

Parsers == {"teamcity", "pytest", "cargo", "gtest"}

\* The tests of the run whose output is decoded, and the ids the stream
\* uses for them; any other id is unknown to the lookup.
ParserPaths == << <<"a", "x">>, <<"b">> >>

ReportIds == {"t1", "t2", "unknown"}

\* find_test_by_run_id answering with a leaf for every id.
find_test_by_report_id_any(report_id) ==
    CASE report_id = "t1" -> ParserPaths[1]
      [] report_id = "t2" -> ParserPaths[2]
      [] OTHER -> ParserPaths[1]

find_test_by_report_id(report_id) ==
    CASE report_id = "t1" -> ParserPaths[1]
      [] report_id = "t2" -> ParserPaths[2]
      [] OTHER -> NoPath

\* The lines a decoder tells apart, by what it matches in them.
Line(type, name) == [type |-> type, name |-> name]

StartLines == {Line("started", n) : n \in ReportIds}

\* "other": a line that is no record of the protocol.  "malformed": a line
\* with the prefix of a record and content the decoder cannot take apart
\* (teamcity: testStarted without name='..'; pytest: the header and no JSON;
\* cargo: a started event without name).  pytest "malformed_started": a
\* started record without test; "unknown_status": a status outside
\* PYTEST_STATUS_MAP.  cargo "suite": a JSON record whose type is not test.
TeamcityLines ==
    StartLines \cup {Line(ty, "") : ty \in {"testFinished", "testIgnored", "testFailed",
                                            "other", "malformed"}}

PytestLines ==
    StartLines \cup {Line(ty, "") : ty \in {"finished", "output", "passed", "failed", "skipped",
                                            "other", "malformed", "malformed_started",
                                            "unknown_status"}}

CargoLines ==
    StartLines \cup {Line(ty, "") : ty \in {"ok", "failed", "ignored", "other", "suite",
                                            "malformed"}}

GtestLines ==
    StartLines \cup {Line(ty, "") : ty \in {"OK", "FAILED", "SKIPPED", "other"}}

LinesOf(kind) ==
    CASE kind = "teamcity" -> TeamcityLines
      [] kind = "pytest" -> PytestLines
      [] kind = "cargo" -> CargoLines
      [] kind = "gtest" -> GtestLines

\* A decoder together with the coordinator it notifies:
\* [current_test, current_status, tests, last_test_finished, emitted].
StartedTest(path) == [event |-> "testStarted", path |-> path, status |-> NoStatus]

FinishedTest(path, status) == [event |-> "testFinished", path |-> path, status |-> status]

TestOutput(path, output) == [full_name |-> path, output |-> output]

\* self.test_data.notify_test_output(TestOutput(path, output))
test_output(st, path, output) ==
    [st EXCEPT !.outputs = Append(@, TestOutput(path, output))]

\* self.test_data.notify_test_started(StartedTest(path))
test_started(st, path) ==
    [st EXCEPT !.tests = started_tree(st.tests, path, MaxTime, st.last_test_finished),
               !.last_test_finished = NoPath,
               !.emitted = Append(@, StartedTest(path))]

\* self.test_data.notify_test_finished(FinishedTest(path, status))
test_finished(st, path, status) ==
    [st EXCEPT !.tests = update_from_finished(st.tests, path, status),
               !.last_test_finished = path,
               !.emitted = Append(@, FinishedTest(path, status))]

\* teamcity.OutputParser
teamcity_finish_current_test(st) ==
    IF st.current_test # NoPath
    THEN [test_finished(st, st.current_test, "crashed") EXCEPT !.current_test = NoPath]
    ELSE st

teamcity_close(st) == teamcity_finish_current_test(st)

teamcity_feed(st0, line) ==
    LET st == IF st0.current_test # NoPath THEN test_output(st0, st0.current_test, line)
              ELSE st0
    IN CASE line.type = "started" ->
               LET s1 == teamcity_finish_current_test(st)
                   s2 == [s1 EXCEPT !.current_test = find_test_by_report_id(line.name),
                                    !.current_status = "passed"]
               IN IF s2.current_test = NoPath THEN s2 ELSE test_started(s2, s2.current_test)
         [] line.type = "malformed" ->
               \* parse_test_id raises after finish_current_test has run
               [teamcity_finish_current_test(st) EXCEPT !.raised = TRUE]
         [] line.type = "testFinished" ->
               IF st.current_test = NoPath THEN st
               ELSE [test_finished(st, st.current_test, st.current_status)
                         EXCEPT !.current_test = NoPath]
         [] line.type = "testIgnored" -> [st EXCEPT !.current_status = "skipped"]
         [] line.type = "testFailed" -> [st EXCEPT !.current_status = "failed"]
         [] OTHER -> st

\* pytest.OutputParser
pytest_finish_current_test(st) ==
    IF st.current_test = NoPath THEN st
    ELSE [test_finished(st, st.current_test,
                        IF st.current_status = NoStatus THEN "crashed" ELSE st.current_status)
              EXCEPT !.current_test = NoPath, !.current_status = NoStatus]

pytest_close(st) == pytest_finish_current_test(st)

\* max() of two TestStatus values, which are strings: the later in the
\* alphabet.
ValueOrder == <<"crashed", "failed", "not_run", "passed", "skipped", "stopped">>

ValueRank(value) == CHOOSE i \in 1..Len(ValueOrder) : ValueOrder[i] = value

max(value1, value2) == IF ValueRank(value1) >= ValueRank(value2) THEN value1 ELSE value2

pytest_feed(st, line) ==
    CASE line.type = "started" ->
            LET s1 == pytest_finish_current_test(st)
                s2 == [s1 EXCEPT !.current_test = find_test_by_report_id(line.name)]
            IN IF s2.current_test = NoPath THEN s2 ELSE test_started(s2, s2.current_test)
      [] line.type = "finished" -> pytest_finish_current_test(st)
      [] line.type = "output" ->
            IF st.current_test = NoPath THEN st
            ELSE test_output(st, st.current_test, Line("content", ""))
      [] line.type = "other" -> st
      [] line.type = "malformed" -> [st EXCEPT !.raised = TRUE]
      [] line.type = "malformed_started" ->
            [pytest_finish_current_test(st) EXCEPT !.raised = TRUE]
      [] line.type = "unknown_status" ->
            [st EXCEPT !.current_status = IF @ = NoStatus THEN "not_run" ELSE @,
                       !.raised = TRUE]
      [] OTHER ->
            LET current == IF st.current_status = NoStatus THEN "not_run"
                           ELSE st.current_status
            IN [st EXCEPT !.current_status = max(current, line.type)]

\* cargo.OutputParser
cargo_feed(st, line) ==
    CASE line.type = "started" ->
            LET s1 == [st EXCEPT !.current_test = find_test_by_report_id(line.name)]
            IN IF s1.current_test = NoPath THEN s1 ELSE test_started(s1, s1.current_test)
      [] line.type \in {"ok", "failed", "ignored"} ->
            IF st.current_test = NoPath THEN st
            ELSE [test_finished(st, st.current_test,
                                CASE line.type = "ok" -> "passed"
                                  [] line.type = "failed" -> "failed"
                                  [] line.type = "ignored" -> "skipped")
                      EXCEPT !.current_test = NoPath]
      [] line.type = "other" ->
            IF st.current_test # NoPath THEN test_output(st, st.current_test, line) ELSE st
      [] line.type = "malformed" -> [st EXCEPT !.raised = TRUE]
      [] OTHER -> st

\* gtest.OutputParser
gtest_feed(st, line) ==
    CASE line.type = "started" ->
            LET s1 == [st EXCEPT !.current_test = find_test_by_report_id(line.name)]
            IN IF s1.current_test = NoPath THEN s1
               ELSE test_output(test_started(s1, s1.current_test), s1.current_test, line)
      [] line.type \in {"OK", "FAILED", "SKIPPED"} ->
            IF st.current_test = NoPath THEN st
            ELSE [test_finished(test_output(st, st.current_test, line), st.current_test,
                                CASE line.type = "OK" -> "passed"
                                  [] line.type = "FAILED" -> "failed"
                                  [] line.type = "SKIPPED" -> "skipped")
                      EXCEPT !.current_test = NoPath]
      [] OTHER ->
            IF st.current_test # NoPath THEN test_output(st, st.current_test, line) ELSE st

feed(kind, st, line) ==
    CASE kind = "teamcity" -> teamcity_feed(st, line)
      [] kind = "pytest" -> pytest_feed(st, line)
      [] kind = "cargo" -> cargo_feed(st, line)
      [] kind = "gtest" -> gtest_feed(st, line)

\* The run functions after get_output_streamed returns: phpunit.py (a
\* teamcity decoder) and pytest.py call parser.close(); cargo.py and gtest.py
\* call nothing, their decoders have no close.
close(kind, st) ==
    CASE kind = "teamcity" -> teamcity_close(st)
      [] kind = "pytest" -> pytest_close(st)
      [] OTHER -> st

ParserState ==
    [current_test |-> current_test, current_status |-> current_status, tests |-> tests,
     last_test_finished |-> last_test_finished, emitted |-> emitted, outputs |-> outputs,
     raised |-> FALSE]

SetParserState(st) ==
    /\ current_test' = st.current_test
    /\ current_status' = st.current_status
    /\ tests' = st.tests
    /\ last_test_finished' = st.last_test_finished
    /\ emitted' = st.emitted
    /\ outputs' = st.outputs

\* The sub-results a line carries for the current test.
SubResult(kind, line) ==
    CASE kind = "teamcity" /\ line.type = "testFailed" -> {"failed"}
      [] kind = "teamcity" /\ line.type = "testIgnored" -> {"skipped"}
      [] kind = "pytest" /\ line.type \in {"passed", "failed", "skipped"} -> {line.type}
      [] OTHER -> {}

\* The report ids of the leaves of the tree.
KnownIds == {"t1", "t2"}

\* except Exception as e: the handler of read_stdout around stream_reader(..),
\* left out.
catches_nothing(raised) == FALSE

\* except Exception as e: the handler of read_stdout around stream_reader(..)
catches(raised) == raised

\* The process writes its next line; read_stdout hands it to parser.feed,
\* logs what feed raises and goes on.  An exception that leaves the loop ends
\* read_stdout in its outer handler, and the lines written after that are
\* read by nobody.
Feed(line) ==
    /\ parser \in Parsers
    /\ ~stream.ended
    /\ stream.lines < MaxLines
    /\ line \in LinesOf(parser)
    /\ LET reading == stream.reader = "reading"
           st == IF reading THEN feed(parser, ParserState, line) ELSE ParserState
       IN /\ SetParserState(st)
          /\ stream' = [stream EXCEPT !.lines = @ + 1,
                                      !.fed = IF reading THEN @ + 1 ELSE @,
                                      !.subs = IF line.type = "started" THEN {}
                                               ELSE @ \cup SubResult(parser, line),
                                      !.last = line.type,
                                      !.line = line,
                                      !.open = current_test,
                                      !.unresolved =
                                          IF line.type = "started"
                                          THEN line.name \notin KnownIds ELSE @,
                                      !.errors = IF st.raised /\ catches(st.raised)
                                                 THEN @ + 1 ELSE @,
                                      !.reader = IF st.raised /\ ~catches(st.raised)
                                                 THEN "broken" ELSE @,
                                      !.before = Len(emitted)]
    /\ last_op' = "fed"
    /\ UNCHANGED <<running, test_paths, parser, notParser>>

\* The process has ended and get_output_streamed has returned.
EndOfStream ==
    /\ parser \in Parsers
    /\ ~stream.ended
    /\ SetParserState(close(parser, ParserState))
    /\ stream' = [stream EXCEPT !.ended = TRUE, !.last = "end", !.line = NoLine,
                                !.open = current_test, !.before = Len(emitted)]
    /\ last_op' = "closed"
    /\ UNCHANGED <<running, test_paths, parser, notParser>>

\* A run of the two tests has started and a decoder reads its output.
InitParser ==
    /\ parser \in Parsers
    /\ tests = run_queue_from(discover_all(TestList, ParserPaths).new, ParserPaths, 1)
    /\ running = TRUE
    /\ test_paths = ParserPaths
    /\ last_test_finished = NoPath
    /\ current_test = NoPath
    /\ current_status = IF parser = "teamcity" THEN "passed" ELSE NoStatus
    /\ emitted = <<>>
    /\ outputs = <<>>
    /\ stream = NoStream
    /\ last_op = "run_started"
    /\ InitNotParser

NextParser ==
    \/ \E kind \in Parsers : \E line \in LinesOf(kind) : Feed(line)
    \/ EndOfStream

SpecParser == InitParser /\ [][NextParser]_vars

----------------------------------------------------------------------------
(* The database: TestItem.save, TestList.save / from_location,             *)
(* TestMetaData.save, TestData.commit and TestData.__init__                *)

\* The order in which a children map is walked.  The map keeps insertion
\* order; only the order of a row and the rows below it matters to
\* from_location, and that is fixed by the walk itself.
Names == <<"a", "b", "u", "x", "y">>

ChildList(t, n) ==
    SelectSeq([i \in 1..Len(Names) |-> Append(n, Names[i])], LAMBDA p : p \in DOMAIN t)

\* INSERT OR REPLACE INTO tests: the row of this full_name is deleted and a
\* new row, with the next rowid, is added.
insert_or_replace(rows, path, item) ==
    Append(SelectSeq(rows, LAMBDA r : r.path # path), [path |-> path, item |-> item])

\* TestItem.save: the item, then save of every child.
RECURSIVE TestItem_save(_, _, _)
RECURSIVE save_each(_, _, _)
TestItem_save(rows, t, n) ==
    save_each(insert_or_replace(rows, n, t[n]), t, ChildList(t, n))

save_each(rows, t, children) ==
    IF children = <<>> THEN rows
    ELSE save_each(TestItem_save(rows, t, Head(children)), t, Tail(children))

\* TestItem.save_children: self.save, then save_children of every child.
RECURSIVE save_children(_, _, _)
RECURSIVE save_children_each(_, _, _)
save_children(rows, t, n) ==
    save_children_each(TestItem_save(rows, t, n), t, ChildList(t, n))

save_children_each(rows, t, children) ==
    IF children = <<>> THEN rows
    ELSE save_children_each(save_children(rows, t, Head(children)), t, Tail(children))

RECURSIVE save_hints(_, _, _)
save_hints(rows, t, refresh_hints) ==
    IF refresh_hints = <<>> THEN rows
    ELSE save_hints(IF find_test(t, Head(refresh_hints))
                    THEN TestItem_save(rows, t, Head(refresh_hints))
                    ELSE rows,
                    t, Tail(refresh_hints))

\* TestList.save
TestList_save(rows, t, refresh_hints) ==
    IF refresh_hints = <<>> THEN save_children_each(rows, t, ChildList(t, <<>>))
    ELSE save_hints(rows, t, refresh_hints)

\* TestMetaData.save
TestMetaData_save(st, meta_running) == [st EXCEPT !.meta = [running |-> meta_running]]

\* TestData.commit(meta=..., tests=..., refresh_hints=...)
commit(st, meta_running, t, refresh_hints) ==
    [TestMetaData_save(st, meta_running) EXCEPT !.rows = TestList_save(st.rows, t, refresh_hints)]

\* TestData.commit(tests=..., refresh_hints=...)
commit_tests(st, t, refresh_hints) ==
    [st EXCEPT !.rows = TestList_save(st.rows, t, refresh_hints)]

\* TestList.from_location: SELECT * gives the rows by rowid; each becomes an
\* item (TestItem.from_row) handed to update_test.
RECURSIVE from_location_from(_, _, _)
from_location_from(l, rows, k) ==
    IF k > Len(rows) \/ l.err THEN l
    ELSE LET r == update_test(l.t, rows[k].path, (rows[k].path :> rows[k].item))
         IN from_location_from([t |-> r.t, err |-> r.err], rows, k + 1)

from_location(rows) == from_location_from([t |-> TestList, err |-> FALSE], rows, 1)

\* tests.run_id_lookup after from_location.
RECURSIVE loaded_lookup_from(_, _, _, _)
loaded_lookup_from(l, lookup, rows, k) ==
    IF k > Len(rows) \/ l.err THEN lookup
    ELSE LET r == update_test(l.t, rows[k].path, (rows[k].path :> rows[k].item))
         IN loaded_lookup_from([t |-> r.t, err |-> r.err],
                               IF r.err THEN lookup
                               ELSE add_to_lookup(lookup, r.t, rows[k].path, r.inserted),
                               rows, k + 1)

loaded_lookup(rows) == loaded_lookup_from([t |-> TestList, err |-> FALSE], <<>>, rows, 1)

parents_in_path(path) == [i \in 1..(Len(path) - 1) |-> Prefix(path, i)]

\* 'for item in self.tests.tests(): item.notify_run_stopped()'
RECURSIVE stop_each(_, _)
stop_each(t, S) ==
    IF S = {} THEN t
    ELSE LET item == CHOOSE p \in S : TRUE
         IN stop_each(notify_run_stopped(t, item), S \ {item})

\* TestList.update_parent_statuses: every item after the items below it.
RECURSIVE recompute_each(_, _)
recompute_each(t, S) ==
    IF S = {} THEN t
    ELSE LET item == CHOOSE p \in S : \A q \in S : Len(q) <= Len(p)
         IN recompute_each(recompute_status(t, item), S \ {item})

update_parent_statuses(t) == recompute_each(t, DOMAIN t)

\* TestData.__init__ on a location that has a database: load, and when
\* meta.running was left set, notify_run_stopped for every test,
\* update_parent_statuses and commit.
healed(t) == update_parent_statuses(stop_each(t, Leaves(t)))

TestData_init ==
    LET l == from_location(store.rows)
        read == [running |-> store.meta.running, rows |-> store.rows]
    IN /\ ~l.err
       /\ IF store.meta.running
          THEN /\ tests' = healed(l.t)
               /\ store' = [commit(store, FALSE, healed(l.t), <<>>) EXCEPT !.read = read]
          ELSE /\ tests' = l.t
               /\ store' = [store EXCEPT !.read = read]
       /\ running' = FALSE
       /\ last_test_finished' = NoPath
       /\ test_paths' = <<>>
       /\ current_test' = NoPath
       /\ last_op' = "constructed"
       /\ run_id_lookup' = loaded_lookup(store.rows)
       /\ UNCHANGED <<queueVars, parserVars, restVars>>

MaxStoreDiscovered == 1  \* longest list discovered where the database is followed

\* A test, and a test in a group of its name.
StorePaths == { <<"a">>, <<"a", "x">> }

StoreLists == ListsOf(StorePaths, MaxStoreDiscovered)

\* The notifications with the commit that ends each of them.
StoreDiscovered ==
    /\ \E l \in StoreLists :
           notify_discovered_tests(l) /\ run_id_lookup' = discovered_lookup(tests, l)
    /\ store' = commit(store, running', tests', <<>>)
    /\ UNCHANGED <<queueVars, parserVars, restVars>>

StoreRunStarted ==
    /\ \E l \in RunLists(tests) : notify_run_started(l)
    /\ store' = commit(store, running', tests', <<>>)
    /\ UNCHANGED notStore

StoreRunFinished ==
    /\ notify_run_finished(test_paths)
    /\ store' = commit(store, running', tests', <<>>)
    /\ UNCHANGED notStore

StoreTestStarted ==
    /\ \E p \in Leaves(tests), time \in 1..MaxTime :
           /\ notify_test_started(p, time)
           /\ store' = commit_tests(store, tests',
                                    <<p>> \o (IF last_test_finished # NoPath
                                              THEN parents_in_path(last_test_finished)
                                              ELSE <<>>)
                                          \o parents_in_path(p))
    /\ UNCHANGED notStore

StoreTestFinished ==
    /\ \E p \in Leaves(tests), s \in FinishStatuses :
           /\ notify_test_finished(p, s)
           /\ store' = commit_tests(store, tests', <<p>>)
    /\ UNCHANGED notStore

InitStore ==
    /\ tests = TestList
    /\ running = FALSE
    /\ last_test_finished = NoPath
    /\ test_paths = <<>>
    /\ current_test = NoPath
    /\ last_op = "init"
    /\ InitNotData

NextStore ==
    \/ StoreDiscovered
    \/ StoreRunStarted
    \/ StoreRunFinished
    \/ StoreTestStarted
    \/ StoreTestFinished
    \/ TestData_init

SpecStore == InitStore /\ [][NextStore]_vars

----------------------------------------------------------------------------
(* The output of a test: TestList.clear_test_output / add_test_output /    *)
(* flush_test_output / get_test_output.  A text is the sequence of the     *)
(* chunks it was put together from; the empty sequence is ''.              *)

MaxOutputs == 2          \* chunks a buffer entry grows to

Chunks == {"1", "2"}

\* INSERT OR REPLACE INTO test_ouputs VALUES (?,"")
clear_test_output(table, item_path) == Put(table, item_path, <<>>)

add_test_output(buffer, item_path, output) ==
    IF item_path \notin DOMAIN buffer THEN Put(buffer, item_path, <<output>>)
    ELSE [buffer EXCEPT ![item_path] = Append(@, output)]

\* [buffer, table] after flush_test_output; UPDATE changes a row that is there.
flush_test_output(buffer, table, item_path) ==
    IF item_path \notin DOMAIN buffer THEN [buffer |-> buffer, table |-> table]
    ELSE [buffer |-> [x \in DOMAIN buffer \ {item_path} |-> buffer[x]],
          table |-> IF item_path \in DOMAIN table
                    THEN [table EXCEPT ![item_path] = buffer[item_path]]
                    ELSE table]

get_test_output(buffer, table, item_path) ==
    IF item_path \in DOMAIN buffer THEN buffer[item_path]
    ELSE IF item_path \in DOMAIN table THEN table[item_path]
    ELSE <<>>

notOutput ==
    <<queueVars, parserVars, storeVars, lookupVars, runVars, jobVars, asyncVars, namedVars,
      refreshVars, commandVars, textVars>>

OutputRunStarted ==
    /\ notify_run_started(ParserPaths)
    /\ UNCHANGED <<outputVars, notOutput>>

OutputRunFinished ==
    /\ notify_run_finished(test_paths)
    /\ UNCHANGED <<outputVars, notOutput>>

OutputTestStarted ==
    /\ \E p \in Leaves(tests), time \in 1..MaxTime :
           /\ notify_test_started(p, time)
           /\ test_ouputs' = clear_test_output(test_ouputs, p)
           /\ since_start' = Put(since_start, p, <<>>)
    /\ UNCHANGED <<test_output_buffer, notOutput>>

\* A decoder passes on output for its current test.
OutputTestOutput ==
    /\ running
    /\ current_test # NoPath
    /\ \E output \in Chunks :
           /\ Len(get_test_output(test_output_buffer, <<>>, current_test)) < MaxOutputs
           /\ test_output_buffer' = add_test_output(test_output_buffer, current_test, output)
           /\ since_start' = [since_start EXCEPT ![current_test] = Append(@, output)]
    /\ last_op' = "test_output"
    /\ UNCHANGED <<tests, running, last_test_finished, test_paths, current_test, test_ouputs,
                   notOutput>>

OutputTestFinished ==
    /\ \E p \in Leaves(tests), s \in FinishStatuses :
           /\ notify_test_finished(p, s)
           /\ LET f == flush_test_output(test_output_buffer, test_ouputs, p)
              IN /\ test_output_buffer' = f.buffer
                 /\ test_ouputs' = f.table
    /\ UNCHANGED <<since_start, notOutput>>

\* The two tests have been discovered.
InitOutput ==
    /\ tests = discover_all(TestList, ParserPaths).new
    /\ running = FALSE
    /\ last_test_finished = NoPath
    /\ test_paths = <<>>
    /\ current_test = NoPath
    /\ last_op = "discovered"
    /\ InitNotData

NextOutput ==
    \/ OutputRunStarted
    \/ OutputRunFinished
    \/ OutputTestStarted
    \/ OutputTestOutput
    \/ OutputTestFinished

SpecOutput == InitOutput /\ [][NextOutput]_vars

----------------------------------------------------------------------------
(* The coordinator driven by discovery, runs and decoder events            *)

\* TestData.__init__ on a location that is not initialised: init().
InitData ==
    /\ tests = TestList
    /\ running = FALSE
    /\ last_test_finished = NoPath
    /\ test_paths = <<>>
    /\ current_test = NoPath
    /\ last_op = "init"
    /\ InitNotData

Discovered ==
    /\ \E l \in DiscoveredLists :
           notify_discovered_tests(l) /\ run_id_lookup' = discovered_lookup(tests, l)
    /\ UNCHANGED notList

DiscoveredRaises ==
    /\ \E l \in DiscoveredLists : notify_discovered_tests_raises(l)
    /\ UNCHANGED notData

RunStarted ==
    /\ \E l \in RunLists(tests) : notify_run_started(l)
    /\ UNCHANGED notData

RunFinished ==
    /\ notify_run_finished(test_paths)
    /\ UNCHANGED notData

TestStarted ==
    /\ \E p \in Leaves(tests), time \in 1..MaxTime : notify_test_started(p, time)
    /\ UNCHANGED notData

TestFinished ==
    /\ \E p \in Leaves(tests), s \in FinishStatuses : notify_test_finished(p, s)
    /\ UNCHANGED notData

NextData ==
    \/ Discovered
    \/ DiscoveredRaises
    \/ RunStarted
    \/ RunFinished
    \/ TestStarted
    \/ TestFinished

SpecData == InitData /\ [][NextData]_vars

----------------------------------------------------------------------------
(* update_parent_status on a tree three levels deep                        *)

\* The tree discovered from a/x/u, a/y and b: the groups a and a/x, the root.
AggPaths == << <<"a", "x", "u">>, <<"a", "y">>, <<"b">> >>

InitAgg ==
    /\ tests = discover_all(TestList, AggPaths).new
    /\ running = FALSE
    /\ last_test_finished = NoPath
    /\ test_paths = <<>>
    /\ current_test = NoPath
    /\ last_op = "init"
    /\ InitNotData

\* What every notification does to a leaf: set its statuses, then
\* self.tests.update_parent_status(path).
change_leaf(path, last_status, run_status) ==
    /\ tests' = update_parent_status(
                    [tests EXCEPT ![path].last_status = last_status,
                                  ![path].run_status = run_status], path)
    /\ last_op' = "changed"
    /\ UNCHANGED <<running, last_test_finished, test_paths, current_test>>

ChangeLeaf ==
    /\ \E path \in Leaves(tests), ls \in TestStatus, rs \in RunStatus :
           change_leaf(path, ls, rs)
    /\ UNCHANGED notData

NextAgg == ChangeLeaf

SpecAgg == InitAgg /\ [][NextAgg]_vars

----------------------------------------------------------------------------
(* Aggregation, stated from the declared orders                            *)

StatusOrder == <<"not_run", "stopped", "skipped", "passed", "failed", "crashed">>

RunStatusOrder == <<"not_running", "queued", "running">>

Rank(order, s) == CHOOSE i \in 1..Len(order) : order[i] = s

\* The maximum of S under order; bottom for the empty set.
MaxOf(order, S, bottom) ==
    CHOOSE m \in S \cup {bottom} : \A c \in S : Rank(order, c) <= Rank(order, m)

Internal(t) == DOMAIN t \ Leaves(t)

IsProperPrefix(p, q) == IsPrefix(p, q) /\ p # q

Consistent(t, n) ==
    /\ t[n].last_status =
           MaxOf(StatusOrder, {t[c].last_status : c \in Children(t, n)}, "not_run")
    /\ t[n].run_status =
           MaxOf(RunStatusOrder, {t[c].run_status : c \in Children(t, n)}, "not_running")

AllConsistent(t) == \A n \in Internal(t) : Consistent(t, n)

Mutations == {"discovered", "run_started", "run_finished", "test_started", "test_finished"}

----------------------------------------------------------------------------
(* Claims                                                                  *)

\* C1 (as stated): after every coordinator mutation returns, every internal
\* node has last_status and run_status equal to the maximum over its
\* immediate children.
C1_AfterEveryMutation ==
    last_op \in Mutations => AllConsistent(tests)

\* C1 (amended): after every coordinator mutation returns, every internal node
\* other than the proper ancestors of last_test_finished (the leaf whose
\* ancestor recomputation notify_test_finished deferred) equals the maximum
\* over its immediate children; with no deferred leaf, every internal node does.
C1_ConsistentExceptDeferred ==
    last_op \in Mutations =>
        \A n \in Internal(tests) :
            (last_test_finished = NoPath \/ ~IsProperPrefix(n, last_test_finished))
                => Consistent(tests, n)

\* notify_test_started has recomputed the ancestors of the failed leaf a/x
\* deferred before it and of the leaf b it started.
C1_Witness ==
    /\ last_op = "test_started"
    /\ <<"a", "x">> \in Leaves(tests) /\ <<"b">> \in Leaves(tests)
    /\ tests[<<"a", "x">>].last_status = "failed"
    /\ tests[<<"a">>].last_status = "failed"
    /\ tests[<<"b">>].run_status = "running"
    /\ tests[<<>>].last_status = "failed"
    /\ tests[<<>>].run_status = "running"

\* C2: from a tree in which every internal node equals the maximum over its
\* children, changing the statuses of the leaf at P and calling
\* update_parent_status(P) gives such a tree again, and the nodes that are
\* not ancestors of P keep their statuses.
C2_UpdateParentStatus ==
    /\ [](AllConsistent(tests))
    /\ [][\E path \in Leaves(tests) :
             \A n \in DOMAIN tests :
                 ~IsPrefix(n, path) =>
                     /\ n \in DOMAIN tests'
                     /\ tests'[n].last_status = tests[n].last_status
                     /\ tests'[n].run_status = tests[n].run_status]_vars

\* a/x/u failed and running under a/x, a and the root, next to a passed a/y
\* and a skipped b.
C2_Witness ==
    /\ last_op = "changed"
    /\ tests[<<"a", "x", "u">>].last_status = "failed"
    /\ tests[<<"a", "x", "u">>].run_status = "running"
    /\ tests[<<"a", "y">>].last_status = "passed"
    /\ tests[<<"b">>].last_status = "skipped"
    /\ tests[<<"a", "x">>].last_status = "failed"
    /\ tests[<<"a">>].last_status = "failed"
    /\ tests[<<>>].last_status = "failed"
    /\ tests[<<>>].run_status = "running"

\* C3: after notify_run_finished returns, every internal node's last_status
\* and run_status equal the maximum over its children, whatever test-started
\* and test-finished events the run reported.
C3_RunFinishedRecomputes ==
    last_op = "run_finished" => AllConsistent(tests)

\* C10: notify_discovered_tests keeps last_status and last_run of every
\* discovered path that was a node of the previous tree, and gives a path
\* that was not one last_status NOT_RUN and no last_run.
C10_DiscoveryPreservesHistory ==
    [][\A l \in DiscoveredLists :
          notify_discovered_tests(l) =>
              \A k \in DOMAIN l :
                  /\ l[k] \in DOMAIN tests'
                  /\ IF find_test(tests, l[k])
                     THEN /\ tests'[l[k]].last_status = tests[l[k]].last_status
                          /\ tests'[l[k]].last_run = tests[l[k]].last_run
                     ELSE /\ tests'[l[k]].last_status = "not_run"
                          /\ tests'[l[k]].last_run = NoTime]_vars

\* The tests whose last event in a sequence of events is testStarted.
OpenTests(events) ==
    {p \in {events[k].path : k \in DOMAIN events} :
        LET last == CHOOSE k \in DOMAIN events :
                        /\ events[k].path = p
                        /\ \A m \in DOMAIN events : events[m].path = p => m <= k
        IN events[last].event = "testStarted"}

\* C8: when the stream has ended, every test that was started and not finished
\* by then has been given exactly one testFinished, with CRASHED, and nothing
\* else has been emitted at the end; with no open test nothing is emitted.
C8_CrashedOnClose ==
    stream.ended =>
        LET before == SubSeq(emitted, 1, stream.before)
            after == SubSeq(emitted, stream.before + 1, Len(emitted))
        IN /\ \A p \in OpenTests(before) :
                  Cardinality({k \in DOMAIN after : after[k].path = p}) = 1
           /\ \A k \in DOMAIN after :
                  /\ after[k].path \in OpenTests(before)
                  /\ after[k] = FinishedTest(after[k].path, "crashed")

\* C9: a pytest or teamcity decoder that finishes a test on its final record,
\* having received sub-results for it, passes the most severe of them
\* (NOT_RUN < STOPPED < SKIPPED < PASSED < FAILED < CRASHED) to testFinished.
C9_MaxSeverity ==
    /\ parser \in {"pytest", "teamcity"}
    /\ stream.last \in {"finished", "testFinished"}
    /\ Len(emitted) > stream.before
    /\ stream.subs # {}
    => emitted[Len(emitted)].status = MaxOf(StatusOrder, stream.subs, "not_run")

\* C11: after construction on a database whose meta row had running set:
\* running is false, every leaf row that was RUNNING is a test with
\* last_status CRASHED, every leaf row that was QUEUED one with STOPPED, every
\* other leaf row a test with its last_status, no node is queued or running,
\* every internal node is the maximum over its children, and the database
\* holds this state.
C11_HealedAtConstruction ==
    last_op = "constructed" /\ store.read.running =>
        /\ ~running
        /\ \A k \in DOMAIN store.read.rows :
               LET r == store.read.rows[k]
               IN r.item.leaf =>
                      /\ r.path \in DOMAIN tests
                      /\ tests[r.path].last_status =
                             CASE r.item.run_status = "running" -> "crashed"
                               [] r.item.run_status = "queued" -> "stopped"
                               [] OTHER -> r.item.last_status
        /\ \A n \in DOMAIN tests : tests[n].run_status = "not_running"
        /\ AllConsistent(tests)
        /\ ~store.meta.running
        /\ \A n \in DOMAIN tests \ {<<>>} :
               \E k \in DOMAIN store.rows : store.rows[k] = [path |-> n, item |-> tests[n]]

\* What a new coordinator loads from the database as it is now.
Reloaded == from_location(store.rows)

\* C24: after notify_discovered_tests or notify_run_finished has returned, a
\* coordinator constructed from the same location loads a tree with the node
\* paths of the tree in memory, and each node has the kind (leaf or
\* internal), last_status, run_status and last_run it has in memory; a test
\* removed by a re-discovery is not loaded.
C24_ReloadsToMemoryTree ==
    last_op \in {"discovered", "run_finished"} =>
        /\ ~Reloaded.err
        /\ DOMAIN Reloaded.t = DOMAIN tests
        /\ \A n \in DOMAIN tests \ {<<>>} :
               /\ Reloaded.t[n].leaf = tests[n].leaf
               /\ Reloaded.t[n].last_status = tests[n].last_status
               /\ Reloaded.t[n].run_status = tests[n].run_status
               /\ Reloaded.t[n].last_run = tests[n].last_run

\* C12: when notify_run_finished(paths) returns, running is false and every
\* leaf in paths is NOT_RUNNING; one that was still RUNNING has last_status
\* CRASHED, one that was still QUEUED has STOPPED, and one that had finished
\* keeps the last_status its testFinished gave it.
C12_RunFinishedStopsLeaves ==
    [][notify_run_finished(test_paths) =>
          /\ ~running'
          /\ \A k \in DOMAIN test_paths :
                 LET p == test_paths[k]
                 IN /\ p \in Leaves(tests')
                    /\ tests'[p].run_status = "not_running"
                    /\ tests'[p].last_status =
                           CASE tests[p].run_status = "running" -> "crashed"
                             [] tests[p].run_status = "queued" -> "stopped"
                             [] OTHER -> tests[p].last_status]_vars

\* A run of a and b has ended with a started and not finished, b never started.
C12_Witness ==
    /\ last_op = "run_finished"
    /\ ~running
    /\ <<"a">> \in Leaves(tests) /\ <<"b">> \in Leaves(tests)
    /\ tests[<<"a">>].last_status = "crashed" /\ tests[<<"a">>].run_status = "not_running"
    /\ tests[<<"b">>].last_status = "stopped" /\ tests[<<"b">>].run_status = "not_running"

\* C13: from notify_run_started to notify_run_finished the run_status of a
\* leaf changes only from NOT_RUNNING to QUEUED (notify_run_started), from
\* QUEUED to RUNNING (notify_test_started), from RUNNING to NOT_RUNNING
\* (notify_test_finished, notify_run_finished) and from QUEUED to NOT_RUNNING
\* (notify_run_finished): no leaf becomes RUNNING that the run did not queue.
C13_RunStatusTransitions ==
    [][last_op' \in {"run_started", "test_started", "test_finished", "run_finished"} =>
          \A p \in Leaves(tests) \cap Leaves(tests') :
              LET old == tests[p].run_status
                  new == tests'[p].run_status
              IN old # new =>
                     \/ old = "not_running" /\ new = "queued" /\ last_op' = "run_started"
                     \/ old = "queued" /\ new = "running" /\ last_op' = "test_started"
                     \/ old = "running" /\ new = "not_running"
                            /\ last_op' \in {"test_finished", "run_finished"}
                     \/ old = "queued" /\ new = "not_running" /\ last_op' = "run_finished"]_vars

\* C14: when a start record's report id resolves to no leaf, feed raises
\* nothing and notifies no testStarted for it, and the records and plain lines
\* that follow up to the next start record cause no testStarted, testOutput
\* or testFinished at all and no error either (a line that is malformed
\* itself aside).
C14_UnresolvedIgnored ==
    [][last_op' = "fed" =>
          /\ (stream'.last = "started" /\ stream'.unresolved) =>
                 /\ stream'.errors = stream.errors
                 /\ \A k \in (Len(emitted) + 1)..Len(emitted') :
                        emitted'[k].event # "testStarted"
                 /\ current_test' = NoPath
          /\ (stream'.last # "started" /\ stream.unresolved) =>
                 /\ emitted' = emitted
                 /\ outputs' = outputs
                 /\ stream'.last \notin {"malformed", "malformed_started", "unknown_status"}
                        => stream'.errors = stream.errors]_vars

\* An unknown start record has been read, then a plain line, then a record
\* that finishes a test: nothing has been notified.
C14_Witness ==
    /\ stream.unresolved
    /\ stream.lines >= 3
    /\ stream.last \in {"testFinished", "finished", "ok", "OK"}
    /\ emitted = <<>>
    /\ outputs = <<>>

\* C15: a line that is no record of the protocol is passed on as exactly one
\* testOutput(current test, line) with the line as it came when a test is
\* open, and causes no notification when none is.
C15_PlainLinesForwarded ==
    [][last_op' = "fed" /\ stream'.last = "other" =>
          /\ emitted' = emitted
          /\ outputs' = IF current_test # NoPath
                        THEN Append(outputs, TestOutput(current_test, stream'.line))
                        ELSE outputs]_vars

\* C16: whatever a line contains, read_stdout keeps reading: every line the
\* process has written has been handed to the decoder, and no exception has
\* left the loop.
C16_MalformedTolerated ==
    /\ stream.reader = "reading"
    /\ stream.fed = stream.lines

\* After a malformed line was logged, a later record has finished a test.
C16_Witness ==
    /\ stream.errors >= 1
    /\ stream.last \in {"testFinished", "finished", "ok"}
    /\ Len(emitted) > stream.before
    /\ stream.fed = stream.lines

\* C17: get_test_output(p) is the concatenation, in order, of the texts
\* passed to notify_test_output for p since the most recent
\* notify_test_started(p): empty right after the start, and left as it is by
\* notify_test_finished and notify_run_finished, also when an earlier run
\* ended without a testFinished for p.
C17_OutputSinceStart ==
    \A p \in DOMAIN since_start :
        get_test_output(test_output_buffer, test_ouputs, p) = since_start[p]

\* The run ids a lookup can be asked for: those of the paths and one more.
RunIds == {RunId(p) : p \in PathUniverse} \cup {"id_other"}

\* C18: after notify_discovered_tests the lookup by the run id of every leaf
\* of the tree returns the path of that leaf, and the lookup by an id that
\* belongs to no leaf returns None.
C18_LookupFindsLeaves ==
    last_op = "discovered" =>
        /\ \A p \in Leaves(tests) : find_test_by_run_id(run_id_lookup, RunId(p)) = p
        /\ \A id \in RunIds :
               (\A p \in Leaves(tests) : RunId(p) # id)
                   => find_test_by_run_id(run_id_lookup, id) = NoPath

----------------------------------------------------------------------------
(* TestRunHelper.run_tests (run.py): the loop over the suites of a run     *)

\* TestItem.suite_id of the test at a path.
SuiteOf(path) == IF path[1] = "a" THEN "suite_a" ELSE "suite_b"

\* The keys of test_ids in the order add_test made them.
RECURSIVE suites_of(_, _, _)
suites_of(paths, k, acc) ==
    IF k > Len(paths) THEN acc
    ELSE suites_of(paths, k + 1,
                   IF \E i \in DOMAIN acc : acc[i] = SuiteOf(paths[k]) THEN acc
                   ELSE Append(acc, SuiteOf(paths[k])))

notRun ==
    <<queueVars, parserVars, storeVars, lookupVars, outputVars, jobVars, asyncVars, namedVars,
      refreshVars, commandVars, textVars>>

\* run_tests up to the loop: the tests are collected and the run is announced.
RunTestsStart ==
    /\ run.pc = "idle"
    /\ \E l \in RunLists(tests) :
           /\ notify_run_started(l)
           /\ run' = [pc |-> "loop", suites |-> suites_of(l, 1, <<>>), ran |-> <<>>,
                      raised |-> FALSE]
    /\ UNCHANGED notRun

\* suite.run(grouped_tests) raising past the finally clause of run_tests.
suite_raised_to_except(r) ==
    [r EXCEPT !.ran = Append(@, r.suites[Len(r.ran) + 1]), !.raised = TRUE,
              !.pc = "idle"]

\* suite.run(grouped_tests) raises: the exception leaves the for loop and
\* reaches the finally clause.
suite_raised(r) ==
    [r EXCEPT !.ran = Append(@, r.suites[Len(r.ran) + 1]), !.raised = TRUE,
              !.pc = "finally"]

\* suite.run(grouped_tests) returns; after the last suite the loop is done.
suite_returned(r) ==
    [r EXCEPT !.ran = Append(@, r.suites[Len(r.ran) + 1]),
              !.pc = IF Len(r.ran) + 1 = Len(r.suites) THEN "finally" ELSE "loop"]

\* The for loop with no suite left (no test was collected).
RunTestsNoSuite ==
    /\ run.pc = "loop"
    /\ Len(run.ran) = Len(run.suites)
    /\ run' = [run EXCEPT !.pc = "finally"]
    /\ UNCHANGED <<dataVars, notRun>>

SuiteReturns ==
    /\ run.pc = "loop"
    /\ Len(run.ran) < Len(run.suites)
    /\ run' = suite_returned(run)
    /\ UNCHANGED <<dataVars, notRun>>

SuiteRaises ==
    /\ run.pc = "loop"
    /\ Len(run.ran) < Len(run.suites)
    /\ run' = suite_raised(run)
    /\ UNCHANGED <<dataVars, notRun>>

\* finally: data.notify_run_finished(FinishedRun(test_paths))
RunTestsFinally ==
    /\ run.pc = "finally"
    /\ notify_run_finished(test_paths)
    /\ run' = [run EXCEPT !.pc = "idle"]
    /\ UNCHANGED notRun

\* The decoders of the suite that is running report to the coordinator.
SuiteTestStarted == run.pc = "loop" /\ Len(run.ran) < Len(run.suites) /\ TestStarted

SuiteTestFinished == run.pc = "loop" /\ Len(run.ran) < Len(run.suites) /\ TestFinished

\* The tests a/x of suite_a and b of suite_b have been discovered.
InitRun == InitOutput

NextRun ==
    \/ RunTestsStart
    \/ RunTestsNoSuite
    \/ SuiteReturns
    \/ SuiteRaises
    \/ RunTestsFinally
    \/ SuiteTestStarted
    \/ SuiteTestFinished

SpecRun == InitRun /\ [][NextRun]_vars

\* C19: when the run of one suite raises, the suites of the run that have not
\* been run yet are run all the same, and the run ends with
\* notify_run_finished: when run_tests has come back, every suite of the run
\* has been run.
C19_OtherSuitesStillRun ==
    (run.pc = "idle" /\ last_op = "run_finished") =>
        \A i \in DOMAIN run.suites : \E j \in DOMAIN run.ran : run.ran[j] = run.suites[i]

----------------------------------------------------------------------------
(* Stopping a run: TestData.stop_tests_event, TestManagerStopCommand and   *)
(* the streaming job of process.run                                        *)

MaxRuns == 2             \* runs started
MaxUnread == 1           \* lines the pipe holds

\* notify_run_started keeping the Event it has.
stop_event_kept(ev) == [ev EXCEPT !.runs = @ + 1]

\* notify_run_started: self.stop_tests_event = threading.Event()
stop_event_of_run(ev) ==
    [objs |-> Append(ev.objs, 0), cur |-> Len(ev.objs) + 1, runs |-> ev.runs + 1]

notJob ==
    <<queueVars, parserVars, storeVars, lookupVars, outputVars, runVars, asyncVars, namedVars,
      refreshVars, commandVars, textVars>>

StreamedRunStarted ==
    /\ stop_tests_event.runs < MaxRuns
    /\ notify_run_started(ParserPaths)
    /\ stop_tests_event' = stop_event_of_run(stop_tests_event)
    /\ UNCHANGED <<streaming, stop_command, notJob>>

\* run_tests comes to its finally clause when no job of its suites is under way.
StreamedRunFinished ==
    /\ streaming.pc \in {"none", "returned"}
    /\ notify_run_finished(test_paths)
    /\ UNCHANGED <<jobVars, notJob>>

\* A framework's run calls get_output_streamed(.., self.test_data.stop_tests_event, ..):
\* Popen, and the reader thread is started.
StreamedJobStarts ==
    /\ running
    /\ streaming.pc \in {"none", "returned"}
    /\ streaming' = [pc |-> "waiting", token |-> stop_tests_event.cur,
                     run |-> stop_tests_event.runs, proc |-> "running", unread |-> 0,
                     reader |-> "reading"]
    /\ UNCHANGED <<dataVars, stop_tests_event, stop_command, notJob>>

ProcessWrites ==
    /\ streaming.proc = "running"
    /\ streaming.unread < MaxUnread
    /\ streaming' = [streaming EXCEPT !.unread = @ + 1]
    /\ UNCHANGED <<dataVars, stop_tests_event, stop_command, notJob>>

ProcessExits ==
    /\ streaming.proc = "running"
    /\ streaming' = [streaming EXCEPT !.proc = "exited"]
    /\ UNCHANGED <<dataVars, stop_tests_event, stop_command, notJob>>

\* read_stdout: for line in proc.stdout
ReaderReads ==
    /\ streaming.reader = "reading"
    /\ streaming.unread > 0
    /\ streaming' = [streaming EXCEPT !.unread = @ - 1]
    /\ UNCHANGED <<dataVars, stop_tests_event, stop_command, notJob>>

\* read_stdout: the pipe is closed and empty, the loop and the thread end.
ReaderEnds ==
    /\ streaming.reader = "reading"
    /\ streaming.unread = 0
    /\ streaming.proc \in {"exited", "killed"}
    /\ streaming' = [streaming EXCEPT !.reader = "done"]
    /\ UNCHANGED <<dataVars, stop_tests_event, stop_command, notJob>>

\* while not stop_token.wait(0.1) and proc.poll() is None: pass
JobLeavesLoop ==
    /\ streaming.pc = "waiting"
    /\ stop_tests_event.objs[streaming.token] # 0 \/ streaming.proc # "running"
    /\ streaming' = [streaming EXCEPT !.pc = "check"]
    /\ UNCHANGED <<dataVars, stop_tests_event, stop_command, notJob>>

\* if stop_token.is_set(): proc.kill()
JobKills ==
    /\ streaming.pc = "check"
    /\ streaming' = [streaming EXCEPT
                         !.pc = "join",
                         !.proc = IF stop_tests_event.objs[streaming.token] # 0 /\ @ = "running"
                                  THEN "killed" ELSE @]
    /\ UNCHANGED <<dataVars, stop_tests_event, stop_command, notJob>>

\* return (proc.poll(), None, None) without process_thread.join()
JobReturnsUnjoined ==
    /\ streaming.pc = "join"
    /\ streaming' = [streaming EXCEPT !.pc = "returned"]
    /\ UNCHANGED <<dataVars, stop_tests_event, stop_command, notJob>>

\* process_thread.join(); return (proc.poll(), None, None)
JobJoins ==
    /\ streaming.pc = "join"
    /\ streaming.reader = "done"
    /\ streaming' = [streaming EXCEPT !.pc = "returned"]
    /\ UNCHANGED <<dataVars, stop_tests_event, stop_command, notJob>>

\* TestManagerStopCommand.run: data.is_running_tests(), then the dialog.
StopAsked ==
    /\ stop_command = "idle"
    /\ running
    /\ stop_command' = "dialog"
    /\ UNCHANGED <<dataVars, stop_tests_event, streaming, notJob>>

\* The dialog is confirmed: data.stop_tests_event.set()
StopConfirmed ==
    /\ stop_command = "dialog"
    /\ stop_command' = "idle"
    /\ stop_tests_event' =
           [stop_tests_event EXCEPT
                !.objs[stop_tests_event.cur] = IF @ = 0 THEN stop_tests_event.runs ELSE @]
    /\ UNCHANGED <<dataVars, streaming, notJob>>

\* The dialog is cancelled.
StopCancelled ==
    /\ stop_command = "dialog"
    /\ stop_command' = "idle"
    /\ UNCHANGED <<dataVars, stop_tests_event, streaming, notJob>>

InitStreamed == InitOutput

NextStreamed ==
    \/ StreamedRunStarted
    \/ StreamedRunFinished
    \/ StreamedJobStarts
    \/ ProcessWrites
    \/ ProcessExits
    \/ ReaderReads
    \/ ReaderEnds
    \/ JobLeavesLoop
    \/ JobKills
    \/ JobJoins
    \/ StopAsked
    \/ StopConfirmed
    \/ StopCancelled

SpecStreamed == InitStreamed /\ [][NextStreamed]_vars

\* C20: a streaming job whose stop event is set while it waits kills its
\* subprocess, waits until the reader has read what was left in the pipe and
\* returns; a job that has returned has a subprocess that exited or was
\* killed after the stop; and a subprocess is killed only by a stop set
\* during the run the job belongs to, never by one set during an earlier run.
C20_StopKillsThisRunOnly ==
    /\ streaming.pc = "returned" =>
           /\ streaming.proc \in {"exited", "killed"}
           /\ streaming.reader = "done"
           /\ streaming.unread = 0
    /\ streaming.pc \in {"join", "returned"} /\ stop_tests_event.objs[streaming.token] # 0
           /\ streaming.proc # "exited"
           => streaming.proc = "killed"
    /\ streaming.proc = "killed" => stop_tests_event.objs[streaming.token] = streaming.run
    /\ streaming.pc \in {"waiting", "check", "join"} =>
           stop_tests_event.objs[streaming.token] \in {0, streaming.run}

\* Run 1 was stopped; a job of run 2 has been killed by the stop of run 2 and
\* has returned after its reader was done.
C20_Witness ==
    /\ stop_tests_event.objs = <<0, 1, 2>>
    /\ streaming.run = 2
    /\ streaming.pc = "returned"
    /\ streaming.proc = "killed"
    /\ streaming.reader = "done"

----------------------------------------------------------------------------
(* Cmd.worker_run_async (cmd.py): a supervisor thread per job, the module's *)
(* one worker thread and the host's callback dispatcher.  process_queue_one *)
(* and get_output_queue of cmd.py are the code of WorkQueue's, on module     *)
(* globals: the worker's steps above are used for both.                     *)

MaxAsync == 2            \* jobs run through worker_run_async altogether

CmdWorkerQueueSize == 1  \* worker_queue = queue.Queue(1)

max_tries == 2           \* polls of 0.1 s before a put or a get gives up (100 in cmd.py)

MainThread == "main"     \* the thread sublime.set_timeout calls its callbacks on

notAsync ==
    <<dataVars, parserVars, storeVars, lookupVars, outputVars, runVars, jobVars, namedVars,
      refreshVars, commandVars, textVars>>

\* JobError("Could not execute command: %s" % e)
CouldNotExecute(job_id) == [error |-> TRUE, of |-> job_id]

\* worker_run_async(job, on_complete, on_exception, task_id) and the start of
\* the thread it returns; a callback is callable (TRUE) or None.  The task id
\* is the caller's and no two jobs are given the same one.
WorkerRunAsync(s) ==
    /\ async_inner[s].pc = "none"
    /\ log.jobs < MaxAsync
    /\ \E on_complete \in BOOLEAN, on_exception \in BOOLEAN :
           async_inner' = [async_inner EXCEPT ![s] =
               [NoAsync EXCEPT !.pc = "put", !.job = log.jobs + 1, !.task_id = log.jobs + 1,
                               !.on_complete = on_complete, !.on_exception = on_exception]]
    /\ log' = [log EXCEPT !.jobs = @ + 1]
    /\ UNCHANGED <<notAsync, last_task_id, worker_queue, output_queue, queues, frame, worker,
                   timeouts, called>>

\* push_new_job: worker_queue.put((task_id, job), timeout=0.1) finds room
AsyncPut(s) ==
    /\ async_inner[s].pc = "put"
    /\ Len(worker_queue) < CmdWorkerQueueSize
    /\ worker_queue' = Append(worker_queue,
                              [task_id |-> async_inner[s].task_id, job |-> async_inner[s].job])
    /\ async_inner' = [async_inner EXCEPT ![s].pc = "get_output_queue", ![s].num_tries = 0]
    /\ log' = [log EXCEPT !.submitted = Append(@, async_inner[s].job)]
    /\ UNCHANGED <<notAsync, last_task_id, output_queue, queues, frame, worker, timeouts, called>>

\* push_new_job: the put times out on the full queue; the max_tries-th time
\* the exception is raised, and async_inner makes a JobError of it.
AsyncPutTimeout(s) ==
    /\ async_inner[s].pc = "put"
    /\ Len(worker_queue) >= CmdWorkerQueueSize
    /\ async_inner' =
           IF async_inner[s].num_tries + 1 = max_tries
           THEN [async_inner EXCEPT ![s].outputs = CouldNotExecute(async_inner[s].job),
                                    ![s].pc = "callback"]
           ELSE [async_inner EXCEPT ![s].num_tries = @ + 1]
    /\ UNCHANGED <<notAsync, queueVars, timeouts, called>>

\* get_job_output: num_tries = 0; queue = get_output_queue(task_id)
AsyncGetOutputQueue(s) ==
    /\ async_inner[s].pc = "get_output_queue"
    /\ get_output_queue(async_inner[s].task_id)
    /\ async_inner' = [async_inner EXCEPT ![s].obj = OutputQueueOf(async_inner[s].task_id),
                                          ![s].pc = "get"]
    /\ UNCHANGED <<notAsync, last_task_id, worker_queue, frame, worker, log, timeouts, called>>

\* get_job_output: queue.get(timeout=0.1) finds the outputs
AsyncGet(s) ==
    /\ async_inner[s].pc = "get"
    /\ queues[async_inner[s].obj] # <<>>
    /\ async_inner' = [async_inner EXCEPT ![s].outputs = Head(queues[async_inner[s].obj]),
                                          ![s].pc = "release"]
    /\ queues' = [queues EXCEPT ![async_inner[s].obj] = Tail(@)]
    /\ UNCHANGED <<notAsync, last_task_id, worker_queue, output_queue, frame, worker, log,
                   timeouts, called>>

\* get_job_output: the get times out on the empty queue; the max_tries-th
\* time dump_stack logs the worker's stack and the exception is raised.
AsyncGetTimeout(s) ==
    /\ async_inner[s].pc = "get"
    /\ queues[async_inner[s].obj] = <<>>
    /\ async_inner' =
           IF async_inner[s].num_tries + 1 = max_tries
           THEN [async_inner EXCEPT ![s].outputs = CouldNotExecute(async_inner[s].job),
                                    ![s].num_tries = @ + 1, ![s].pc = "release"]
           ELSE [async_inner EXCEPT ![s].num_tries = @ + 1]
    /\ UNCHANGED <<notAsync, queueVars, timeouts, called>>

\* get_job_output, finally: release_output_queue(task_id)
AsyncRelease(s) ==
    /\ async_inner[s].pc = "release"
    /\ output_queue' = [k \in DOMAIN output_queue \ {async_inner[s].task_id} |-> output_queue[k]]
    /\ async_inner' = [async_inner EXCEPT ![s].pc = "callback"]
    /\ UNCHANGED <<notAsync, last_task_id, worker_queue, queues, frame, worker, log,
                   timeouts, called>>

\* async_inner, after the wait: both callbacks are scheduled whatever the
\* outputs are.
callbacks_of_both(a) ==
    (IF a.on_exception THEN <<"on_exception">> ELSE <<>>)
    \o (IF a.on_complete THEN <<"on_complete">> ELSE <<>>)

\* async_inner, after the wait: an exception object goes to on_exception,
\* anything else to on_complete; a callback that is not callable is skipped.
callbacks_of(a) ==
    IF a.outputs.error
    THEN IF a.on_exception THEN <<"on_exception">> ELSE <<>>
    ELSE IF a.on_complete THEN <<"on_complete">> ELSE <<>>

\* sublime.set_timeout(partial(callback, outputs), 0), called on thread s
set_timeout(s, a, callbacks) ==
    timeouts \o [k \in DOMAIN callbacks |->
                    [job |-> a.job, callback |-> callbacks[k], outputs |-> a.outputs,
                     thread |-> s]]

\* async_inner schedules the callback and the thread ends.
AsyncCallback(s) ==
    /\ async_inner[s].pc = "callback"
    /\ timeouts' = set_timeout(s, async_inner[s], callbacks_of(async_inner[s]))
    /\ log' = [log EXCEPT !.received =
                   (async_inner[s].job :>
                        [outputs |-> async_inner[s].outputs,
                         raised |-> async_inner[s].outputs.error,
                         on_complete |-> async_inner[s].on_complete,
                         on_exception |-> async_inner[s].on_exception]) @@ @]
    /\ async_inner' = [async_inner EXCEPT ![s] = NoAsync]
    /\ UNCHANGED <<notAsync, last_task_id, worker_queue, output_queue, queues, frame, worker,
                   called>>

\* The host calls the callback scheduled first, on its main thread.
SetTimeoutCalls ==
    /\ timeouts # <<>>
    /\ called' = Append(called, [Head(timeouts) EXCEPT !.thread = MainThread])
    /\ timeouts' = Tail(timeouts)
    /\ UNCHANGED <<notAsync, queueVars, async_inner>>

NextAsync ==
    \/ \E s \in Supervisors : WorkerRunAsync(s)
    \/ \E s \in Supervisors : AsyncPut(s)
    \/ \E s \in Supervisors : AsyncPutTimeout(s)
    \/ \E s \in Supervisors : AsyncGetOutputQueue(s)
    \/ \E s \in Supervisors : AsyncGet(s)
    \/ \E s \in Supervisors : AsyncGetTimeout(s)
    \/ \E s \in Supervisors : AsyncRelease(s)
    \/ \E s \in Supervisors : AsyncCallback(s)
    \/ SetTimeoutCalls
    \/ WorkerGet
    \/ WorkerJob
    \/ WorkerGetOutputQueue
    \/ WorkerPut

InitAsync == InitQueue

SpecAsync == InitAsync /\ [][NextAsync]_vars

\* The set_timeout calls made for a job: scheduled, or called already.
ScheduledFor(job_id) ==
    [callback \in {"on_complete", "on_exception"} |->
        Cardinality({k \in DOMAIN timeouts :
                        timeouts[k].job = job_id /\ timeouts[k].callback = callback})
        + Cardinality({k \in DOMAIN called :
                          called[k].job = job_id /\ called[k].callback = callback})]

\* No callback was scheduled by the worker thread and none is called on it;
\* none is scheduled for a job whose supervisor has not got its outcome.
OnlyThroughDispatcher ==
    /\ \A k \in DOMAIN timeouts : timeouts[k].thread \in Supervisors
    /\ \A k \in DOMAIN called : called[k].thread = MainThread
    /\ \A j \in 1..log.jobs : j \notin DOMAIN log.received =>
           ScheduledFor(j) = [callback \in {"on_complete", "on_exception"} |-> 0]

----------------------------------------------------------------------------
(* The blocking wait of worker_run (process.py): callers of run() that are   *)
(* not the worker, the worker thread, and a job that may never return.       *)

CallerStep(t) ==
    \/ NextTaskIdLoad(t)
    \/ NextTaskIdStore(t)
    \/ NextTaskIdRead(t)
    \/ PushNewJob(t)
    \/ GetOutputQueue(t)
    \/ GetJobOutput(t)
    \/ ReleaseOutputQueue(t)
    \/ Return(t)

NextWait ==
    \/ \E t \in Callers : Call(t)
    \/ \E t \in Callers : NextTaskIdLoad(t)
    \/ \E t \in Callers : NextTaskIdStore(t)
    \/ \E t \in Callers : NextTaskIdRead(t)
    \/ \E t \in Callers : PushNewJob(t)
    \/ \E t \in Callers : GetOutputQueue(t)
    \/ \E t \in Callers : GetJobOutput(t)
    \/ \E t \in Callers : ReleaseOutputQueue(t)
    \/ \E t \in Callers : Return(t)
    \/ WorkerGet
    \/ WorkerJob
    \/ WorkerGetOutputQueue
    \/ WorkerPut
    \/ WorkerPutTimeout

\* Every thread goes on running; every blocking call of the worker has a
\* timeout, and a call that can return does.  Nothing makes a job return: it
\* waits for a subprocess.
SpecWait ==
    /\ InitQueue
    /\ [][NextWait]_vars
    /\ \A t \in Callers : WF_vars(CallerStep(t))
    /\ WF_vars(WorkerGet)
    /\ WF_vars(WorkerGetOutputQueue)
    /\ WF_vars(WorkerPut \/ WorkerPutTimeout)

\* C22: a blocking wait for a job result never waits indefinitely: a caller
\* that has reached the get of get_job_output leaves it, with the job's
\* outputs or, after the retry budget of polls, with a timeout error.
C22_WaitEnds ==
    \A t \in Callers : (frame[t].pc = "get") ~> (frame[t].pc # "get")

----------------------------------------------------------------------------
(* get_queue (process.py): the named queues, made on first use, each with   *)
(* its own worker thread.                                                   *)

MaxNamedJobs == 3        \* calls of run(command, queue=name) altogether

QueueNames == {"a", "b"} \* the names run() is called with

BlockingNames == {"a"}   \* the queues that are given jobs that never return

notNamed ==
    <<dataVars, queueVars, parserVars, storeVars, lookupVars, outputVars, runVars, jobVars,
      asyncVars, refreshVars, commandVars, textVars>>

\* 'with queue_list_lock:' is entered without waiting for the lock.
acquire_unlocked(t) == TRUE

\* 'with queue_list_lock:' waits until no thread holds the lock.
acquire(t) == queue_list_lock = "free"

\* WorkQueue.__init__(name): an empty worker_queue and a started worker thread
WorkQueue(name) == [name |-> name, worker_queue |-> <<>>, pc |-> "get", job |-> 0]

\* run(command, queue=name): the job is made and get_queue(name) is called.
NamedRun(t) ==
    /\ get_queue_frame[t].pc = "idle"
    /\ Len(named_jobs) < MaxNamedJobs
    /\ \E name \in QueueNames, returns \in BOOLEAN :
           /\ name \notin BlockingNames => returns
           /\ named_jobs' = Append(named_jobs,
                                   [name |-> name, returns |-> returns, state |-> "made"])
           /\ get_queue_frame' = [get_queue_frame EXCEPT ![t] =
                  [NoGetQueue EXCEPT !.pc = "acquire", !.name = name,
                                     !.job = Len(named_jobs) + 1]]
    /\ UNCHANGED <<notNamed, work_queues, queue_list_lock, work_queue_objs>>

\* get_queue: with queue_list_lock
GetQueueAcquire(t) ==
    /\ get_queue_frame[t].pc = "acquire"
    /\ acquire(t)
    /\ queue_list_lock' = t
    /\ get_queue_frame' = [get_queue_frame EXCEPT ![t].pc = "test"]
    /\ UNCHANGED <<notNamed, work_queues, work_queue_objs, named_jobs>>

\* get_queue: if not name in work_queues
GetQueueTest(t) ==
    /\ get_queue_frame[t].pc = "test"
    /\ get_queue_frame' = [get_queue_frame EXCEPT
           ![t].found = get_queue_frame[t].name \in DOMAIN work_queues,
           ![t].pc = IF get_queue_frame[t].name \in DOMAIN work_queues THEN "return"
                     ELSE "create"]
    /\ UNCHANGED <<notNamed, work_queues, queue_list_lock, work_queue_objs, named_jobs>>

\* get_queue: work_queues[name] = WorkQueue(name)
GetQueueCreate(t) ==
    /\ get_queue_frame[t].pc = "create"
    /\ work_queue_objs' = Append(work_queue_objs, WorkQueue(get_queue_frame[t].name))
    /\ work_queues' = [n \in DOMAIN work_queues \cup {get_queue_frame[t].name} |->
                          IF n = get_queue_frame[t].name THEN Len(work_queue_objs) + 1
                          ELSE work_queues[n]]
    /\ get_queue_frame' = [get_queue_frame EXCEPT ![t].pc = "return"]
    /\ UNCHANGED <<notNamed, queue_list_lock, named_jobs>>

\* get_queue: return work_queues[name], and the lock is released
GetQueueReturn(t) ==
    /\ get_queue_frame[t].pc = "return"
    /\ get_queue_frame' = [get_queue_frame EXCEPT
           ![t].obj = work_queues[get_queue_frame[t].name], ![t].pc = "push"]
    /\ queue_list_lock' = IF queue_list_lock = t THEN "free" ELSE queue_list_lock
    /\ UNCHANGED <<notNamed, work_queues, work_queue_objs, named_jobs>>

\* worker_run: queue.push_new_job(task_id, job) on the queue get_queue gave
NamedPush(t) ==
    /\ get_queue_frame[t].pc = "push"
    /\ Len(work_queue_objs[get_queue_frame[t].obj].worker_queue) < WorkerQueueSize
    /\ work_queue_objs' = [work_queue_objs EXCEPT ![get_queue_frame[t].obj].worker_queue =
                               Append(@, get_queue_frame[t].job)]
    /\ named_jobs' = [named_jobs EXCEPT ![get_queue_frame[t].job].state = "submitted"]
    /\ get_queue_frame' = [get_queue_frame EXCEPT ![t].pc = "wait"]
    /\ UNCHANGED <<notNamed, work_queues, queue_list_lock>>

\* worker_run: queue.get_job_output(task_id) returns what the worker has put.
NamedGetJobOutput(t) ==
    /\ get_queue_frame[t].pc = "wait"
    /\ named_jobs[get_queue_frame[t].job].state = "done"
    /\ get_queue_frame' = [get_queue_frame EXCEPT ![t] = NoGetQueue]
    /\ UNCHANGED <<notNamed, work_queues, queue_list_lock, work_queue_objs, named_jobs>>

\* process_queue_one of the worker thread of object i: the oldest job is taken
NamedWorkerGet(i) ==
    /\ i \in DOMAIN work_queue_objs
    /\ work_queue_objs[i].pc = "get"
    /\ work_queue_objs[i].worker_queue # <<>>
    /\ work_queue_objs' = [work_queue_objs EXCEPT
           ![i].pc = "job", ![i].job = Head(work_queue_objs[i].worker_queue),
           ![i].worker_queue = Tail(@)]
    /\ named_jobs' = [named_jobs EXCEPT ![Head(work_queue_objs[i].worker_queue)].state =
                                            "started"]
    /\ UNCHANGED <<notNamed, work_queues, queue_list_lock, get_queue_frame>>

\* process_queue_one: job() returns and its outputs are put for the caller; a
\* job that does not return keeps the thread.
NamedWorkerJob(i) ==
    /\ i \in DOMAIN work_queue_objs
    /\ work_queue_objs[i].pc = "job"
    /\ named_jobs[work_queue_objs[i].job].returns
    /\ named_jobs' = [named_jobs EXCEPT ![work_queue_objs[i].job].state = "done"]
    /\ work_queue_objs' = [work_queue_objs EXCEPT ![i].pc = "get", ![i].job = 0]
    /\ UNCHANGED <<notNamed, work_queues, queue_list_lock, get_queue_frame>>

NamedCallerStep(t) ==
    \/ GetQueueAcquire(t)
    \/ GetQueueTest(t)
    \/ GetQueueCreate(t)
    \/ GetQueueReturn(t)
    \/ NamedPush(t)
    \/ NamedGetJobOutput(t)

NextNamed ==
    \/ \E t \in Callers : NamedRun(t)
    \/ \E t \in Callers : GetQueueAcquire(t)
    \/ \E t \in Callers : GetQueueTest(t)
    \/ \E t \in Callers : GetQueueCreate(t)
    \/ \E t \in Callers : GetQueueReturn(t)
    \/ \E t \in Callers : NamedPush(t)
    \/ \E t \in Callers : NamedGetJobOutput(t)
    \/ \E i \in 1..MaxNamedJobs : NamedWorkerGet(i)
    \/ \E i \in 1..MaxNamedJobs : NamedWorkerJob(i)

InitNamed == InitQueue

\* Every thread goes on running: a caller that can take its next step takes
\* it, and so does each worker thread; a job that returns does return.
SpecNamed ==
    /\ InitNamed
    /\ [][NextNamed]_vars
    /\ \A t \in Callers : WF_vars(NamedCallerStep(t))
    /\ \A i \in 1..MaxNamedJobs : WF_vars(NamedWorkerGet(i)) /\ WF_vars(NamedWorkerJob(i))

\* The WorkQueue objects (each with its one worker thread) made for a name.
QueuesNamed(name) == {i \in DOMAIN work_queue_objs : work_queue_objs[i].name = name}

OneQueuePerName ==
    /\ \A name \in QueueNames :
           /\ Cardinality(QueuesNamed(name)) <= 1
           /\ name \in DOMAIN work_queues => QueuesNamed(name) = {work_queues[name]}
           /\ name \notin DOMAIN work_queues => QueuesNamed(name) = {}
    /\ \A t \in Callers :
           get_queue_frame[t].pc \in {"push", "wait"} =>
               get_queue_frame[t].obj = work_queues[get_queue_frame[t].name]

\* Job j is waiting on the worker_queue of a queue that is given no job that
\* never returns.
SubmittedElsewhere(j) ==
    IF j \in DOMAIN named_jobs
    THEN named_jobs[j].name \notin BlockingNames /\ named_jobs[j].state = "submitted"
    ELSE FALSE

NamedDone(j) == IF j \in DOMAIN named_jobs THEN named_jobs[j].state = "done" ELSE FALSE

\* C23: whatever the interleaving of the first get_queue(name) calls, there
\* is never more than one WorkQueue (with its worker thread) per name, it is
\* the one every caller is given; and a job submitted to a queue other than
\* the one with a job that never returns is started and completes.
C23_LazyIndependentQueues ==
    /\ []OneQueuePerName
    /\ \A j \in 1..MaxNamedJobs : SubmittedElsewhere(j) ~> NamedDone(j)

\* The worker of one queue is held by a job that does not return, and a job
\* submitted later to the other queue has completed.
C23_Witness ==
    \E j, k \in DOMAIN named_jobs :
        /\ j < k
        /\ named_jobs[j].name \in BlockingNames
        /\ ~named_jobs[j].returns
        /\ named_jobs[j].state = "started"
        /\ named_jobs[k].name \notin BlockingNames
        /\ named_jobs[k].state = "done"

----------------------------------------------------------------------------
(* Refreshing the views and writing the database (test_data.py): the        *)
(* notifications as far as commit and refresh_views go, the refresh thread  *)
(* of a run, and the clock.  The output views (refresh_output_queue) are    *)
(* left out.                                                                *)

MaxNow == 3              \* ticks of the clock

MaxWrites == 4           \* commits of the notifications altogether

MIN_REFRESH_INTERVAL == 2 \* 0.1 s, in ticks of 0.05 s

HintNames == {"a", "b"}  \* full names given as refresh hints

HintLists == (SUBSET HintNames) \ {{}}

notRefresh ==
    <<tests, last_test_finished, test_paths, current_test, last_op, queueVars, parserVars,
      storeVars, lookupVars, outputVars, runVars, jobVars, asyncVars, namedVars, commandVars,
      textVars>>

\* refresh_views_continuously: a refresh whenever the loop comes round.
interval_elapsed_always(last_refresh, t) == TRUE

\* refresh_views_continuously:
\* 'last_refresh is None or now - last_refresh > MIN_REFRESH_INTERVAL'
interval_elapsed(last_refresh, t) ==
    last_refresh = NoRefresh \/ t - last_refresh > MIN_REFRESH_INTERVAL

\* refresh_views_now(refresh_hints), called by the thread or by the caller of
\* refresh_views; is_running: meta.running at that moment.
refresh_views_now(by, is_running, refresh_hints) ==
    Append(delivered, [by |-> by, hints |-> refresh_hints, at |-> now,
                       running |-> is_running, run |-> refresh_thread.run])

\* refresh_views(refresh_hints) on a given refresh_list_queue
refresh_views(is_running, queue, refresh_hints) ==
    IF is_running /\ refresh_hints # {}
    THEN /\ refresh_list_queue' = Append(queue, refresh_hints)
         /\ delivered' = delivered
    ELSE /\ refresh_list_queue' = queue
         /\ delivered' = refresh_views_now("caller", is_running, refresh_hints)

\* commit(meta=..., tests=..., refresh_hints=...): tests.save(refresh_hints)
\* at once, then refresh_views(refresh_hints)
commit_and_refresh(op, is_running, queue, refresh_hints) ==
    /\ writes' = Append(writes, [op |-> op, hints |-> refresh_hints, at |-> now,
                                 running |-> is_running, run |-> refresh_thread.run])
    /\ refresh_views(is_running, queue, refresh_hints)

\* notify_discovered_tests: commit(meta=self.meta, tests=new_tests)
RefreshDiscovered ==
    /\ ~running
    /\ ~refresh_thread.joining
    /\ Len(writes) < MaxWrites
    /\ commit_and_refresh("discovered", running, refresh_list_queue, {})
    /\ UNCHANGED <<running, now, refresh_thread, notRefresh>>

\* notify_run_started: meta.running = True, a new stop token, a new
\* refresh_list_queue and a started refresh thread; then commit(meta, tests).
RefreshRunStarted ==
    /\ ~running
    /\ ~refresh_thread.joining
    /\ refresh_thread.pc = "none"
    /\ refresh_thread.run < MaxRuns
    /\ Len(writes) < MaxWrites
    /\ running' = TRUE
    /\ refresh_thread' = [NoRefreshThread EXCEPT !.pc = "head", !.run = refresh_thread.run + 1]
    /\ writes' = Append(writes, [op |-> "run_started", hints |-> {}, at |-> now,
                                 running |-> TRUE, run |-> refresh_thread.run + 1])
    /\ refresh_list_queue' = <<>>
    /\ delivered' = Append(delivered, [by |-> "caller", hints |-> {}, at |-> now,
                                       running |-> TRUE, run |-> refresh_thread.run + 1])
    /\ UNCHANGED <<now, notRefresh>>

\* notify_test_started / notify_test_finished:
\* commit(tests=self.tests, refresh_hints=refresh_hints)
RefreshTestEvent ==
    /\ running
    /\ Len(writes) < MaxWrites
    /\ \E refresh_hints \in HintLists :
           commit_and_refresh("test", running, refresh_list_queue, refresh_hints)
    /\ UNCHANGED <<running, now, refresh_thread, notRefresh>>

\* notify_run_finished, holding the mutex: meta.running = False,
\* stop_refresh_thread.set() and the join of the thread begins
RefreshRunFinishedStops ==
    /\ running
    /\ running' = FALSE
    /\ refresh_thread' = [refresh_thread EXCEPT !.stop = TRUE, !.joining = TRUE]
    /\ UNCHANGED <<now, refresh_list_queue, delivered, writes, notRefresh>>

\* notify_run_finished: the thread has ended; commit(meta, tests)
RefreshRunFinishedCommits ==
    /\ refresh_thread.joining
    /\ refresh_thread.pc = "none"
    /\ refresh_thread' = [refresh_thread EXCEPT !.joining = FALSE]
    /\ commit_and_refresh("run_finished", running, refresh_list_queue, {})
    /\ UNCHANGED <<running, now, notRefresh>>

\* refresh_views_continuously: 'while not stop_token.is_set()'
RefreshThreadLoops ==
    /\ refresh_thread.pc = "head"
    /\ refresh_thread' = IF refresh_thread.stop
                         THEN [refresh_thread EXCEPT !.pc = "none", !.accumulated_hints = {}]
                         ELSE [refresh_thread EXCEPT !.pc = "list"]
    /\ UNCHANGED <<running, now, refresh_list_queue, delivered, writes, notRefresh>>

\* refresh_views_continuously: refresh_list_queue.get(block=False) gives a
\* list, whose hints are added to accumulated_hints
RefreshThreadGets ==
    /\ refresh_thread.pc = "list"
    /\ ~refresh_thread.stop
    /\ refresh_list_queue # <<>>
    /\ refresh_thread' = [refresh_thread EXCEPT !.accumulated_hints = @ \cup Head(refresh_list_queue)]
    /\ refresh_list_queue' = Tail(refresh_list_queue)
    /\ UNCHANGED <<running, now, delivered, writes, notRefresh>>

\* refresh_views_continuously: the get raises on the empty queue, or the stop
\* token ends the inner loop
RefreshThreadNoInput ==
    /\ refresh_thread.pc = "list"
    /\ refresh_thread.stop \/ refresh_list_queue = <<>>
    /\ refresh_thread' = [refresh_thread EXCEPT !.pc = "check"]
    /\ UNCHANGED <<running, now, refresh_list_queue, delivered, writes, notRefresh>>

\* refresh_views_continuously: now = time.time(); when the interval has
\* elapsed, refresh_views_now(list(accumulated_hints)) and a new empty set
RefreshThreadChecks ==
    /\ refresh_thread.pc = "check"
    /\ IF interval_elapsed(refresh_thread.last_refresh, now)
       THEN /\ delivered' = refresh_views_now("thread", running,
                                              refresh_thread.accumulated_hints)
            /\ refresh_thread' = [refresh_thread EXCEPT !.pc = "head", !.last_refresh = now,
                                                        !.accumulated_hints = {}]
       ELSE /\ delivered' = delivered
            /\ refresh_thread' = [refresh_thread EXCEPT !.pc = "head"]
    /\ UNCHANGED <<running, now, refresh_list_queue, writes, notRefresh>>

Tick ==
    /\ now < MaxNow
    /\ now' = now + 1
    /\ UNCHANGED <<running, refresh_list_queue, refresh_thread, delivered, writes, notRefresh>>

NextRefresh ==
    \/ RefreshDiscovered
    \/ RefreshRunStarted
    \/ RefreshTestEvent
    \/ RefreshRunFinishedStops
    \/ RefreshRunFinishedCommits
    \/ RefreshThreadLoops
    \/ RefreshThreadGets
    \/ RefreshThreadNoInput
    \/ RefreshThreadChecks
    \/ Tick

InitRefresh == InitQueue

SpecRefresh == InitRefresh /\ [][NextRefresh]_vars

\* The hints passed to refresh_views during run r, up to now.
HintsPassed(r) ==
    UNION {writes[i].hints : i \in {k \in DOMAIN writes : writes[k].run = r /\ writes[k].running}}

\* The refreshes the refresh thread of run r has made.
ThreadRefreshes(r) ==
    {k \in DOMAIN delivered : delivered[k].by = "thread" /\ delivered[k].run = r}

\* The hints still on their way during the run: on the queue, or accumulated.
HintsPending ==
    UNION {refresh_list_queue[k] : k \in DOMAIN refresh_list_queue}
        \cup refresh_thread.accumulated_hints

\* The commits whose refresh_views call refreshes at once: no run is active,
\* or no hint is given.
IsImmediate(w) == ~w.running \/ w.hints = {}

RefreshOf(e) == [hints |-> e.hints, at |-> e.at, run |-> e.run, running |-> e.running]

ByCaller(e) == e.by = "caller"

RECURSIVE MapRefreshOf(_)
MapRefreshOf(seq) ==
    IF seq = <<>> THEN <<>> ELSE <<RefreshOf(Head(seq))>> \o MapRefreshOf(Tail(seq))

C26_WritesCoalesced ==
    /\ \A i, j \in DOMAIN writes :
           i < j /\ writes[i].op = "test" /\ writes[j].op = "test" =>
               writes[j].at - writes[i].at >= MIN_REFRESH_INTERVAL
    /\ \A i \in DOMAIN writes :
           writes[i].hints = {} <=> writes[i].op \in {"discovered", "run_started", "run_finished"}

----------------------------------------------------------------------------
(* The report-id index with the ids as the frameworks give them: a          *)
(* DiscoveredTest has a full name, the (framework id, executable) it is run  *)
(* by, and the run id it is reported by.                                    *)

IndexPaths == { <<"a", "x">>, <<"b">>, <<"c">> }

IndexScopes == {"exe1", "exe2"}  \* (framework_id, location.executable)

IndexRunIds == {"t1", "t2"}

DiscoveredTest(full_name, scope, run_id) ==
    [full_name |-> full_name, scope |-> scope, run_id |-> run_id]

\* The lists handed over: tests of different full names, none the group of
\* another.
IndexLists ==
    {l \in ListsOf({DiscoveredTest(p, s, id) : p \in IndexPaths, s \in IndexScopes,
                                               id \in IndexRunIds}, MaxDiscovered) :
        \A i, j \in DOMAIN l : i # j => l[i].full_name # l[j].full_name}

\* add_item_to_run_id_lookup:
\* self.run_id_lookup[framework_id][executable][run_id] = path
add_item_to_scoped_lookup(lookup, test) ==
    Put(lookup, <<test.scope, test.run_id>>, test.full_name)

\* new_tests.run_id_lookup after the loop of notify_discovered_tests: every
\* item is a leaf that update_test inserts.
RECURSIVE index_from(_, _, _)
index_from(lookup, l, k) ==
    IF k > Len(l) THEN lookup
    ELSE index_from(add_item_to_scoped_lookup(lookup, l[k]), l, k + 1)

PathsOf(l) == [k \in DOMAIN l |-> l[k].full_name]

IndexDiscovered ==
    /\ \E l \in IndexLists :
           /\ notify_discovered_tests(PathsOf(l))
           /\ run_id_lookup' = index_from(<<>>, l, 1)
           /\ last_discovered' = l
    /\ UNCHANGED <<queueVars, parserVars, storeVars, outputVars, runVars, jobVars, asyncVars,
                   namedVars, refreshVars, async_queue, async_thread, commands,
                   textVars>>

InitIndex == InitQueue

NextIndex == IndexDiscovered

SpecIndex == InitIndex /\ [][NextIndex]_vars

\* C27: a discovery in which two tests have the same report id in the same
\* (suite, executable) scope fails: when notify_discovered_tests has returned,
\* no two tests of the list it was given share scope and id, and none has
\* taken the index entry of another.
C27_DuplicateIdsRejected ==
    last_op = "discovered" =>
        /\ \A i, j \in DOMAIN last_discovered :
               i # j => <<last_discovered[i].scope, last_discovered[i].run_id>>
                            # <<last_discovered[j].scope, last_discovered[j].run_id>>
        /\ \A i \in DOMAIN last_discovered :
               run_id_lookup[<<last_discovered[i].scope, last_discovered[i].run_id>>]
                   = last_discovered[i].full_name

----------------------------------------------------------------------------
(* The notifications given a path that is not in the tree                    *)

UnknownPaths == { <<"c">> }  \* paths of no node of the tree

MaxStarted == 2          \* longest path list given to notify_run_started

\* The index of the first path of the list that find_test does not find.
FirstUnknown(t, paths) ==
    CHOOSE k \in DOMAIN paths :
        /\ ~find_test(t, paths[k])
        /\ \A i \in 1..(k - 1) : find_test(t, paths[i])

HasUnknown(t, paths) == \E k \in DOMAIN paths : ~find_test(t, paths[k])

\* Path lists with a path that is not in the tree.
UnknownLists(t) ==
    {l \in ListsOf(Leaves(t) \cup UnknownPaths, MaxStarted) : IsInjective(l) /\ HasUnknown(t, l)}

\* notify_run_started: meta.running = True first, then the loop over the
\* paths, which raises at the first that find_test does not find; the paths
\* before it are queued by then.  Nothing is committed.
notify_run_started_raises(paths) ==
    /\ ~running
    /\ HasUnknown(tests, paths)
    /\ running' = TRUE
    /\ tests' = run_queue_from(tests, SubSeq(paths, 1, FirstUnknown(tests, paths) - 1), 1)
    /\ last_op' = "run_started_raised"
    /\ UNCHANGED <<last_test_finished, test_paths, current_test>>

\* notify_run_finished: meta.running = False first, then the loop, which
\* raises at the first unknown path; the paths before it are stopped by then.
notify_run_finished_raises(paths) ==
    /\ running
    /\ HasUnknown(tests, paths)
    /\ running' = FALSE
    /\ tests' = run_stop_from(tests, SubSeq(paths, 1, FirstUnknown(tests, paths) - 1), 1)
    /\ last_op' = "run_finished_raised"
    /\ UNCHANGED <<last_test_finished, test_paths, current_test>>

\* notify_test_started and notify_test_finished: find_test comes first, and
\* 'raise Exception('Unknown test ...')' before anything is changed.
notify_test_raises(op, full_name) ==
    /\ ~find_test(tests, full_name)
    /\ last_op' = op
    /\ UNCHANGED <<tests, running, last_test_finished, test_paths, current_test>>

RunStartedRaises ==
    /\ \E l \in UnknownLists(tests) : notify_run_started_raises(l)
    /\ UNCHANGED notData

RunFinishedRaises ==
    /\ \E l \in UnknownLists(tests) : notify_run_finished_raises(l)
    /\ UNCHANGED notData

TestStartedRaises ==
    /\ \E p \in UnknownPaths : notify_test_raises("test_started_raised", p)
    /\ UNCHANGED notData

TestFinishedRaises ==
    /\ \E p \in UnknownPaths : notify_test_raises("test_finished_raised", p)
    /\ UNCHANGED notData

InitUnknown == InitOutput

NextUnknown ==
    \/ RunStarted
    \/ RunFinished
    \/ TestStarted
    \/ TestFinished
    \/ RunStartedRaises
    \/ RunFinishedRaises
    \/ TestStartedRaises
    \/ TestFinishedRaises

SpecUnknown == InitUnknown /\ [][NextUnknown]_vars

RaisedOps ==
    {"run_started_raised", "run_finished_raised", "test_started_raised", "test_finished_raised"}

\* C29: a notification (notify_run_started, notify_run_finished,
\* notify_test_started, notify_test_finished) given a path that is not in the
\* tree raises and leaves the coordinator as it was: running is unchanged and
\* no node has changed its run_status or last_status.
C29_UnknownPathChangesNothing ==
    [][last_op' \in RaisedOps =>
           /\ running' = running
           /\ DOMAIN tests' = DOMAIN tests
           /\ \A n \in DOMAIN tests :
                  /\ tests'[n].run_status = tests[n].run_status
                  /\ tests'[n].last_status = tests[n].last_status]_vars

\* C30: in every reachable state in which running is false (no run is in
\* progress), no leaf has run_status QUEUED or RUNNING.
C30_IdleLeavesNotRunning ==
    ~running => \A p \in Leaves(tests) : tests[p].run_status \notin {"queued", "running"}

----------------------------------------------------------------------------
(* The discover and start commands (discover.py, run.py): each tests        *)
(* is_running_tests() on the UI thread and hands its work to the host's one  *)
(* async thread with sublime.set_timeout_async; the callbacks run there one  *)
(* after the other.                                                         *)

MaxDiscoverCommands == 2 \* discover commands given

MaxStartCommands == 1    \* start commands given

notCommands ==
    <<queueVars, parserVars, storeVars, outputVars, runVars, jobVars, asyncVars, namedVars,
      refreshVars, last_discovered, textVars>>

\* notify_discovered_tests as it is written: meta.running is not looked at.
notify_discovered_tests_any(discovered_tests) ==
    /\ LET d == discover_all(tests, discovered_tests)
       IN /\ ~d.err
          /\ tests' = d.new
    /\ last_op' = "discovered"
    /\ UNCHANGED <<running, last_test_finished, test_paths, current_test>>

\* sublime.set_timeout_async(callback)
set_timeout_async(kind, test_list) ==
    async_queue' = Append(async_queue, [kind |-> kind, test_list |-> test_list])

\* TestManagerDiscoverCommand.run, on the UI thread: refused while
\* is_running_tests() or is_discovering_tests()
DiscoverCommand ==
    /\ commands.discover < MaxDiscoverCommands
    /\ ~running
    /\ ~commands.discovering
    /\ set_timeout_async("discover", <<>>)
    /\ commands' = [commands EXCEPT !.discover = @ + 1]
    /\ UNCHANGED <<dataVars, lookupVars, async_thread, notCommands>>

\* TestManagerStartCommand.run, on the UI thread: refused while
\* is_running_tests(); test_list = data.get_test_list() is a copy of the tree
\* as it is now, and the tests to run are taken from it.
StartCommand ==
    /\ commands.start < MaxStartCommands
    /\ ~running
    /\ \E l \in RunLists(tests) : l # <<>> /\ set_timeout_async("run", l)
    /\ commands' = [commands EXCEPT !.start = @ + 1]
    /\ UNCHANGED <<dataVars, lookupVars, async_thread, notCommands>>

\* The async thread is free and takes the callback scheduled first.
next_callback(kind) ==
    /\ async_thread.pc = "idle"
    /\ async_queue # <<>>
    /\ Head(async_queue).kind = kind
    /\ async_queue' = Tail(async_queue)

\* discover_tests begins: data.notify_discovery_started(), then the suites
\* are asked for their tests.
DiscoverTestsBegins ==
    /\ next_callback("discover")
    /\ async_thread' = [pc |-> "discovering", kind |-> "discover", test_list |-> <<>>]
    /\ commands' = [commands EXCEPT !.discovering = TRUE]
    /\ UNCHANGED <<dataVars, lookupVars, notCommands>>

\* discover_tests ends: data.notify_discovered_tests(discovered_tests).
\* discover_tests does not call notify_discovery_ended here, and TestData
\* defines neither that method nor is_discovering_tests: the flag is left
\* either way.
DiscoverTestsDelivers ==
    /\ async_thread.pc = "discovering"
    /\ \E l \in DiscoveredLists :
           notify_discovered_tests_any(l) /\ run_id_lookup' = discovered_lookup(tests, l)
    /\ async_thread' = NoCallback
    /\ \E ended \in BOOLEAN :
           commands' = [commands EXCEPT !.discovering = ~ended, !.delivered = @ + 1]
    /\ UNCHANGED <<async_queue, notCommands>>

\* discover_tests ends with an exception of a suite and nothing is
\* delivered: after a DiscoveryError it returns at once, after any other
\* exception it calls data.notify_discovery_ended() first.
DiscoverTestsFails ==
    /\ async_thread.pc = "discovering"
    /\ async_thread' = NoCallback
    /\ \E ended \in BOOLEAN : commands' = [commands EXCEPT !.discovering = ~ended]
    /\ UNCHANGED <<dataVars, lookupVars, async_queue, notCommands>>

\* run_tests begins: the tests collected from its copy of the tree are
\* announced, and the suites run.
RunTestsBegins ==
    /\ next_callback("run")
    /\ notify_run_started(Head(async_queue).test_list)
    /\ async_thread' = [pc |-> "running", kind |-> "run",
                        test_list |-> Head(async_queue).test_list]
    /\ UNCHANGED <<lookupVars, commands, notCommands>>

\* run_tests begins with a test that is no longer in the tree:
\* notify_run_started raises and run_tests ends in its outer except.
RunTestsBeginsRaises ==
    /\ next_callback("run")
    /\ notify_run_started_raises(Head(async_queue).test_list)
    /\ async_thread' = NoCallback
    /\ UNCHANGED <<lookupVars, commands, notCommands>>

\* run_tests ends: finally, data.notify_run_finished(FinishedRun(test_paths))
RunTestsEnds ==
    /\ async_thread.pc = "running"
    /\ notify_run_finished(async_thread.test_list)
    /\ async_thread' = NoCallback
    /\ UNCHANGED <<lookupVars, async_queue, commands, notCommands>>

InitCommands == InitOutput

NextCommands ==
    \/ DiscoverCommand
    \/ StartCommand
    \/ DiscoverTestsBegins
    \/ DiscoverTestsDelivers
    \/ DiscoverTestsFails
    \/ RunTestsBegins
    \/ RunTestsBeginsRaises
    \/ RunTestsEnds

SpecCommands == InitCommands /\ [][NextCommands]_vars

\* C28: notify_discovered_tests never replaces the tree while running is
\* true, whatever the order of a discover command and a start command.
C28_NoDiscoveryWhileRunning ==
    [][commands'.delivered # commands.delivered => ~running]_vars

----------------------------------------------------------------------------
(* run_tests from notify_run_started to notify_run_finished, with every    *)
(* suite.run coming back (by returning or by raising)                      *)

\* RunTestsFinally as the step it is for run_tests: the finally clause is
\* left when notify_run_finished can return (every path of the run is found).
RunTestsFinallyReturns ==
    /\ run.pc = "finally"
    /\ running
    /\ \A k \in DOMAIN test_paths : find_test(tests, test_paths[k])
    /\ run' = [run EXCEPT !.pc = "idle"]

\* run_tests goes on step by step, and the suite that is running comes back.
SpecRunEnds ==
    /\ InitRun
    /\ [][NextRun]_vars
    /\ WF_vars(SuiteReturns \/ SuiteRaises)
    /\ WF_vars(RunTestsNoSuite)
    /\ WF_run(RunTestsFinallyReturns)

\* run_tests has come back after notify_run_finished(FinishedRun(test_paths)).
RunEnded == run.pc = "idle" /\ last_op = "run_finished" /\ ~running

\* C31: once notify_run_started has returned, notify_run_finished is called
\* in the end, whether the suites return or one of them raises, and
\* afterwards running is false.
C31_StartedRunEnds == (run.pc = "loop") ~> RunEnded

\* A run in which a suite raised has ended with notify_run_finished.
C31_Witness == RunEnded /\ run.raised

----------------------------------------------------------------------------
(* What a caller of worker_run gets back *)

\* The jobs run() was called for from inside a job, run in line on the worker.
InlineJobs == (MaxJobs + 1)..(MaxJobs + MaxNested)

\* C32: a caller of worker_run receives the value its own job produced (for a
\* job that called run() itself, what that call returned), and the result of
\* a job the worker has done with is not lost: it has been put on the job's
\* channel.
C32_OwnResultReceived ==
    /\ \A j \in DOMAIN log.received : log.received[j].outputs.of \in {j} \cup InlineJobs
    /\ \A k \in DOMAIN log.started :
           log.started[k] # worker.job => log.started[k] \in log.handed

----------------------------------------------------------------------------
(* The per-task channels of the engine of cmd.py once a job is over *)

\* C33: when a job has been done by the worker and its caller's wait is over
\* (by a result or by giving up), output_queue has no entry for the job's
\* task id.  (worker_run_async gives job j the task id j.)
C33_NoChannelLeft ==
    \A j \in DOMAIN log.received : j \in log.handed => j \notin DOMAIN output_queue

----------------------------------------------------------------------------
(* The reader thread of a streaming job and the job's result *)

\* stream_reader is called with a line of the job's output.
StreamReaderCalled == streaming'.unread < streaming.unread

\* C34: every call of stream_reader is made while the job is still inside
\* run's job function, so before its result can reach the caller of
\* get_output_streamed; when the job has returned the reader thread has
\* ended and the pipe is empty, whether the subprocess exited or was killed.
C34_FeedsBeforeResult ==
    /\ [](streaming.pc = "returned" => streaming.reader = "done" /\ streaming.unread = 0)
    /\ [][StreamReaderCalled =>
              /\ streaming.pc \in {"waiting", "check", "join"}
              /\ streaming'.pc = streaming.pc
              /\ streaming.reader = "reading"]_vars

\* The subprocess was killed on stop with a line still in the pipe: the job
\* is in process_thread.join() and the reader has yet to call stream_reader.
C34_Witness ==
    /\ streaming.pc = "join"
    /\ streaming.proc = "killed"
    /\ streaming.unread > 0
    /\ streaming.reader = "reading"

----------------------------------------------------------------------------
(* The order of the events of one decoder *)

\* C35: a decoder does not emit testStarted while a test it started earlier
\* has not been finished: in the calls it makes, every testStarted but the
\* first comes straight after a testFinished.
C35_NoOverlappingTests ==
    \A k \in 2..Len(emitted) :
        emitted[k].event = "testStarted" => emitted[k - 1].event = "testFinished"

----------------------------------------------------------------------------
(* The status the pytest decoder passes for a test *)

\* What finish_current_test passes for a test whose outcome records, from its
\* 'started' record on, were subs: CRASHED when there was none, else the
\* greatest of them and NOT_RUN as max() orders the values.
pytest_status_of(subs) ==
    IF subs = {} THEN "crashed"
    ELSE CHOOSE m \in subs \cup {"not_run"} :
             \A c \in subs \cup {"not_run"} : ValueRank(c) <= ValueRank(m)

\* C36: the status the pytest decoder passes to testFinished(p) on p's
\* 'finished' record is given by the outcome records received since p's
\* 'started' record alone, whatever was received before p was started (in a
\* stream of records the decoder can take apart).
C36_StatusOfOwnRecords ==
    /\ parser = "pytest"
    /\ stream.last = "finished"
    /\ Len(emitted) > stream.before
    /\ stream.errors = 0
    => emitted[Len(emitted)].status = pytest_status_of(stream.subs)

----------------------------------------------------------------------------
(* The tree and the index after a discovery, with the list that was given  *)

\* data.notify_discovered_tests(discovered_tests) returns.
LeavesDiscovered ==
    /\ \E l \in DiscoveredLists :
           /\ notify_discovered_tests(l)
           /\ run_id_lookup' = discovered_lookup(tests, l)
           /\ last_discovered' = l
    /\ UNCHANGED <<queueVars, parserVars, storeVars, outputVars, runVars, jobVars, asyncVars,
                   namedVars, refreshVars, async_queue, async_thread, commands,
                   textVars>>

\* data.notify_discovered_tests(discovered_tests) raises in update_test.
LeavesDiscoveredRaises ==
    /\ \E l \in DiscoveredLists :
           /\ notify_discovered_tests_raises(l)
           /\ last_discovered' = l
    /\ UNCHANGED <<queueVars, parserVars, storeVars, lookupVars, outputVars, runVars, jobVars,
                   asyncVars, namedVars, refreshVars, async_queue, async_thread, commands,
                   textVars>>

InitLeaves == InitData

\* Discoveries, and between them runs that give the tests their statuses.
NextLeaves ==
    \/ LeavesDiscovered
    \/ LeavesDiscoveredRaises
    \/ RunStarted
    \/ RunFinished
    \/ TestStarted
    \/ TestFinished

SpecLeaves == InitLeaves /\ [][NextLeaves]_vars

\* C37: when notify_discovered_tests(tests) has returned, the leaves of the
\* tree are the full paths of tests, no more and no less, and the report-id
\* index finds every leaf.
C37_LeavesAreDiscovered ==
    last_op = "discovered" =>
        /\ Leaves(tests) = {last_discovered[k] : k \in DOMAIN last_discovered}
        /\ \A p \in Leaves(tests) : find_test_by_run_id(run_id_lookup, RunId(p)) = p

----------------------------------------------------------------------------
(* test_name_to_path and test_path_to_name (test_data.py): a name is a      *)
(* string, here a sequence of characters, a path a list of such strings     *)

MaxSegment == 2          \* characters in a segment of a path

MaxPath == 2             \* segments in a path

MaxName == 3             \* characters in a name

TEST_SEPARATOR == "/"

\* The characters of the names: the separator and one other.
Characters == {"a", TEST_SEPARATOR}

Strings(n) == UNION {[1..k -> Characters] : k \in 0..n}

\* name.split(sep): the pieces between the separators, at least one.
RECURSIVE split_from(_, _, _, _, _)
split_from(name, sep, k, piece, pieces) ==
    IF k > Len(name) THEN Append(pieces, piece)
    ELSE IF name[k] = sep THEN split_from(name, sep, k + 1, <<>>, Append(pieces, piece))
    ELSE split_from(name, sep, k + 1, Append(piece, name[k]), pieces)

split(name, sep) == split_from(name, sep, 1, <<>>, <<>>)

\* sep.join(path)
RECURSIVE join(_, _)
join(sep, path) ==
    IF path = <<>> THEN <<>>
    ELSE IF Len(path) = 1 THEN path[1]
    ELSE path[1] \o <<sep>> \o join(sep, Tail(path))

test_name_to_path(name) ==
    LET path == split(name, TEST_SEPARATOR)
    IN IF Len(path) = 1 /\ Len(path[1]) = 0 THEN <<>> ELSE path

test_path_to_name(path) == join(TEST_SEPARATOR, path)

\* The paths discovery hands over: the segments of the prefix, of the
\* executable's path and the fixture, then the name of the test, which is
\* not empty; the frameworks put the name in as the test program prints it.
DiscoveredPaths ==
    {p \in UNION {[1..k -> Strings(MaxSegment)] : k \in 1..MaxPath} : p[Len(p)] # <<>>}

TestNames == Strings(MaxName)

notText ==
    <<dataVars, queueVars, parserVars, storeVars, lookupVars, outputVars, runVars, jobVars,
      asyncVars, namedVars, refreshVars, commandVars, xml>>

\* TestItem.from_discovered / update_test: full_name = test_path_to_name(path)
PathToName ==
    /\ conversion.pc = "path"
    /\ conversion' = [conversion EXCEPT !.pc = "path_named",
                                        !.name = test_path_to_name(conversion.path)]
    /\ UNCHANGED notText

\* find_test(test_name_to_path(item.full_name)) for the stored full name
NameToPathAgain ==
    /\ conversion.pc = "path_named"
    /\ conversion' = [conversion EXCEPT !.pc = "path_back",
                                        !.back = test_name_to_path(conversion.name)]
    /\ UNCHANGED notText

\* test_name_to_path(name) for a name given to a command
NameToPath ==
    /\ conversion.pc = "name"
    /\ conversion' = [conversion EXCEPT !.pc = "name_split",
                                        !.path = test_name_to_path(conversion.name)]
    /\ UNCHANGED notText

PathToNameAgain ==
    /\ conversion.pc = "name_split"
    /\ conversion' = [conversion EXCEPT !.pc = "name_back",
                                        !.back = test_path_to_name(conversion.path)]
    /\ UNCHANGED notText

\* A path of a discovery, or a name, is about to be converted.
InitNames ==
    /\ tests = TestList
    /\ running = FALSE
    /\ last_test_finished = NoPath
    /\ test_paths = <<>>
    /\ current_test = NoPath
    /\ last_op = "init"
    /\ InitQueueVars /\ InitParserVars /\ InitStoreVars /\ InitProgramVars
    /\ xml = NoXml
    /\ conversion \in
           {[pc |-> "path", path |-> p, name |-> <<>>, back |-> <<>>] : p \in DiscoveredPaths}
           \cup {[pc |-> "name", path |-> <<>>, name |-> n, back |-> <<>>] : n \in TestNames}

NextNames ==
    \/ PathToName
    \/ NameToPathAgain
    \/ NameToPath
    \/ PathToNameAgain

SpecNames == InitNames /\ [][NextNames]_vars

\* C38: test_name_to_path(test_path_to_name(p)) = p for every path p of a
\* discovery, and test_path_to_name(test_name_to_path(n)) = n for every name n.
C38_PathNameRoundTrip ==
    /\ conversion.pc = "path_back" => conversion.back = conversion.path
    /\ conversion.pc = "name_back" => conversion.back = conversion.name

----------------------------------------------------------------------------
(* XmlStreamHandler (common.py) between the SAX parser and an XmlParser,   *)
(* as doctest_cpp.py uses it.  Text is a sequence of characters.           *)

MaxEvents == 7           \* SAX callbacks of one document

MaxDepth == 2            \* elements open at once

\* doctest_cpp.py: no element is captured.
captured_elements_none == {}

\* doctest_cpp.py: captured_elements = ['Info', 'Original', 'Expanded', 'Exception']
captured_elements == {"Info", "Original", "Expanded", "Exception"}

\* The elements of the documents: one that is captured and one that is not
\* (sub-cases are written inside one another).
ElementNames == {"Info", "SubCase"}

\* The characters of the text of an element: blank, or a character that
\* tells whether it was written inside an Info element.
TextCharacter(name) == IF name = "Info" THEN "i" ELSE "x"

\* The chunks the SAX parser hands to characters() inside an element.
TextChunks(name) == {<<" ">>, <<TextCharacter(name)>>}

\* ''.join(list)
RECURSIVE joined(_)
joined(list) == IF list = <<>> THEN <<>> ELSE Head(list) \o joined(Tail(list))

\* len(text.strip()) > 0
NotBlank(text) == \E k \in DOMAIN text : text[k] # " "

\* The handler at the start of a document, and what is recorded of the
\* document: per open element its own text and the outputs made since its
\* start; the element closed last; the calls made by the last callback.
NewXml ==
    [pc |-> "parsing", events |-> 0, current_element |-> <<>>, content |-> <<>>,
     open |-> <<>>, closed |-> [name |-> "none", text |-> <<>>, out |-> <<>>, leaf |-> TRUE],
     calls |-> <<>>]

\* clean_xml_content(content, tag): the chunks kept for tag without the first
\* and the last, and the entry is deleted.
clean_xml_content(content, tag) ==
    IF tag \notin DOMAIN content THEN [content |-> content, returned |-> <<>>]
    ELSE [content |-> [t \in DOMAIN content \ {tag} |-> content[t]],
          returned |-> IF Len(content[tag]) <= 2 THEN <<>>
                       ELSE joined(SubSeq(content[tag], 2, Len(content[tag]) - 1))]

PutContent(content, tag, list) ==
    [t \in DOMAIN content \cup {tag} |-> IF t = tag THEN list ELSE content[t]]

\* self.parser.output(content): a call, heard by every element that is open.
output(x, content) ==
    [x EXCEPT !.calls = Append(@, [call |-> "output", name |-> "", content |-> content]),
              !.open = [k \in DOMAIN @ |-> [@[k] EXCEPT !.out = @ \o content]]]

\* XmlStreamHandler.startElement(name, attrs)
startElement(x, name) ==
    LET top == x.current_element[Len(x.current_element)]
        c == clean_xml_content(x.content, top)
        x1 == IF Len(x.current_element) > 0 /\ top \notin captured_elements
              THEN output([x EXCEPT !.content = c.content], c.returned)
              ELSE x
    IN [x1 EXCEPT !.current_element = Append(@, name),
                  !.open = Append([k \in DOMAIN @ |-> [@[k] EXCEPT !.leaf = FALSE]],
                                  [name |-> name, text |-> <<>>, out |-> <<>>, leaf |-> TRUE]),
                  !.calls = Append(@, [call |-> "startElement", name |-> name,
                                       content |-> <<>>])]

\* XmlStreamHandler.endElement(name)
endElement(x, name) ==
    LET c == clean_xml_content(x.content, name)
        x1 == IF name \notin captured_elements
              THEN output([x EXCEPT !.content = c.content], c.returned)
              ELSE x
        c2 == clean_xml_content(x1.content, name)
    IN [x1 EXCEPT !.current_element = SubSeq(@, 1, Len(@) - 1),
                  !.content = c2.content,
                  !.closed = x1.open[Len(x1.open)],
                  !.open = SubSeq(@, 1, Len(@) - 1),
                  !.calls = Append(@, [call |-> "endElement", name |-> name,
                                       content |-> c2.returned])]

\* XmlStreamHandler.characters(content)
characters(x, chunk) ==
    IF Len(x.current_element) = 0 THEN x
    ELSE LET top == x.current_element[Len(x.current_element)]
             list == Append(IF top \in DOMAIN x.content THEN x.content[top] ELSE <<>>, chunk)
             x1 == [x EXCEPT !.content = PutContent(@, top, list),
                             !.open[Len(x.open)].text = @ \o chunk]
         IN IF top \notin captured_elements /\ Len(list) > 1 /\ NotBlank(list[Len(list)])
            THEN output([x1 EXCEPT !.content = PutContent(@, top, <<list[1]>>)],
                        joined(Tail(list)))
            ELSE x1

notXml ==
    <<dataVars, queueVars, parserVars, storeVars, lookupVars, outputVars, runVars, jobVars,
      asyncVars, namedVars, refreshVars, commandVars, conversion>>

\* The parser comes to a start tag.  The document element of the reporter is
\* not a captured one, and it writes no Info element inside an Info element.
XmlStartElement(name) ==
    /\ xml.pc = "parsing"
    /\ xml.events < MaxEvents
    /\ Len(xml.current_element) < MaxDepth
    /\ IF xml.current_element = <<>> THEN name # "Info"
       ELSE xml.current_element[Len(xml.current_element)] # "Info" \/ name # "Info"
    /\ xml' = [startElement([xml EXCEPT !.calls = <<>>], name) EXCEPT !.events = @ + 1]
    /\ UNCHANGED notXml

\* The parser comes to a piece of text.
XmlCharacters(chunk) ==
    /\ xml.pc = "parsing"
    /\ xml.events < MaxEvents
    /\ xml.current_element # <<>>
    /\ chunk \in TextChunks(xml.current_element[Len(xml.current_element)])
    /\ xml' = [characters([xml EXCEPT !.calls = <<>>], chunk) EXCEPT !.events = @ + 1]
    /\ UNCHANGED notXml

\* The parser comes to the end tag of the element that is open.
XmlEndElement ==
    /\ xml.pc = "parsing"
    /\ xml.events < MaxEvents
    /\ xml.current_element # <<>>
    /\ xml' = [endElement([xml EXCEPT !.calls = <<>>],
                          xml.current_element[Len(xml.current_element)])
                  EXCEPT !.events = @ + 1]
    /\ UNCHANGED notXml

\* A handler has been made for the output of a test program.
InitXml ==
    /\ tests = TestList
    /\ running = FALSE
    /\ last_test_finished = NoPath
    /\ test_paths = <<>>
    /\ current_test = NoPath
    /\ last_op = "init"
    /\ InitQueueVars /\ InitParserVars /\ InitStoreVars /\ InitProgramVars
    /\ conversion = NoConversion
    /\ xml = NewXml

NextXml ==
    \/ \E name \in ElementNames : XmlStartElement(name)
    \/ \E name \in ElementNames : \E chunk \in TextChunks(name) : XmlCharacters(chunk)
    \/ XmlEndElement

SpecXml == InitXml /\ [][NextXml]_vars

\* C39: for an element that is not captured (and has no elements inside it),
\* the output() calls made between its start and its end, put together in
\* order, are the element's text, character for character, however the
\* parser cut the text into chunks.
C39_OutputIsElementText ==
    xml.closed.name \notin captured_elements \cup {"none"} /\ xml.closed.leaf
        => xml.closed.out = xml.closed.text

IsPartOf(piece, text) ==
    \E i \in 1..(Len(text) + 1) :
        /\ i + Len(piece) - 1 <= Len(text)
        /\ SubSeq(text, i, i + Len(piece) - 1) = piece

HasCaptured(text) == \E k \in DOMAIN text : text[k] = TextCharacter("Info")

\* C40: the text of a captured element is never passed to output(); it is
\* passed only as the content of endElement for that element; and endElement
\* for an element that is not captured gets the empty content.
C40_CapturedTextNotOutput ==
    \A k \in DOMAIN xml.calls :
        LET c == xml.calls[k] IN
        /\ c.call = "output" => ~HasCaptured(c.content)
        /\ HasCaptured(c.content) =>
               /\ c.call = "endElement"
               /\ c.name \in captured_elements
               /\ xml.closed.name = c.name
               /\ IsPartOf(c.content, xml.closed.text)
        /\ c.call = "endElement" /\ c.name \notin captured_elements => c.content = <<>>

\* endElement of an Info element has been called with text of the element,
\* inside a sub-case that is still open.
C40_Witness ==
    /\ xml.closed.name = "Info"
    /\ \E k \in DOMAIN xml.calls :
           xml.calls[k].call = "endElement" /\ HasCaptured(xml.calls[k].content)
    /\ xml.open # <<>>

====
